---- MODULE Spec2Model ----
(***************************************************************************)
(* A model of the beacon library: the transport channel (raw socket with   *)
(* its repair task, receive queue, listener table), the Boomerang probe of *)
(* traffic.go and the three path discoveries of path.go.                   *)
(*                                                                         *)
(* SpecB is the Boomerang probe: two calls of Boomerang on one channel,    *)
(* each with its main, receive and send task.                              *)
(* SpecP is one path discovery on a channel built with UseListeners(false).*)
(* SpecSync and SpecEach are the probe sweeps ProbeEachHopOfPathSync and   *)
(* ProbeEachHopOfPath (with Probe and merge).                              *)
(* SpecK is SendTo, SendToPath, the two socket repair tasks and Close.     *)
(* SpecH is the capture readers, the receive queue, the dispatch task and  *)
(* Close.  SpecR is the packet builder CreateRoundTripPacketForPath.       *)
(***************************************************************************)
EXTENDS Integers, Sequences, FiniteSets, TLC

\* ------------------------------------------------------------------ bounds
MaxTime == 1
MaxTimeout == 1
MaxSendFailures == 1
MaxPackets == 2
MaxDevices == 3
MaxQueued == 3
MaxPayload == 2
MaxHops == 4
MaxRun == 2
MaxChans == 2
MaxSubLen == 3
MaxAnswered == 3
MaxForwarded == 2

\* ------------------------------------------------------- program constants
timedOut == 0
fatal == 1
sendError == 2
MaxTTL == 32
IHL == 5
ipHeaderLen == 20
udpHeaderLen == 8
hashLen == 20
chanCap == 1

\* ------------------------------------------------------------------ values
\* two Boomerang calls on the one channel
Probes == {1, 2}
NilIP == "nil"
ZeroTime == 0
StartTime == ZeroTime + 1
NoID == ""
NoFD == 0 - 1
Timeouts == 0..MaxTimeout
PathSet == {<<"A">>, <<"A", "B">>, <<"A", "B", "C">>}
Last(s) == s[Len(s)]
\* the prefixes path[0:idx] a sweep probes, and the packets of a sweep
Idxs == UNION {2..Len(p) : p \in PathSet}
Workers == (1..MaxPackets) \X Idxs
NoResult == <<>>
\* the tasks calling SendTo and SendToPath, and the capture devices
Senders == {1, 2}
Devices == 1..MaxDevices
NoCall == <<>>
\* the tasks that call rx(): the dispatch task of NewTransportChannel and
\* the capture task of a path discovery; the queues they can make
RxCallers == {"dispatch", "capture"}
NoQueue == 0
Queues == 1..Cardinality(RxCallers)
NotBuilt == [called |-> FALSE, err |-> FALSE, layers |-> <<>>, payload |-> 0,
             serialized |-> FALSE]

VARIABLES
    \* transport channel
    socketFD, nextFD, repairPc, brokenFD, sendFailures,
    wire, packets, packetsMade,
    listenerMap, lqueue, lclosed,
    now,
    \* Boomerang calls
    bPath, bTimeout, mainPc, rxPc, txPc, txTime, sendErr, heldFD, seenResult,
    pending, returned, hits,
    \* path discovery
    filter, mode, srcIsLocal, script, captured, callResult,
    capturePc, capturePkt, listenerReadySignalSent, foundQ, doneQ,
    senderPc, resumePc, pFD, ttl, emitVal, hops, pathClosed, pathSent, taken,
    \* probe sweeps: ProbeEachHopOfPath, ProbeEachHopOfPathSync, Probe, merge
    sKind, sPath, numPackets, sPc, drvPc, packetCount, wPc, wRes,
    pPc, pCount, dPc, dHeld, out, outClosed,
    \* sockets, SendTo callers and Close
    closedFDs, failedFDs, socket6FD, repair6Pc, broken6FD, kPc, kCall, kLast,
    closeCalled,
    \* capture handles, readers and the dispatch task
    numDevices, hClosed, rdPc, packetsClosed, dispPc,
    \* packet builder
    bldPath, bldPayloadLen, bldOut,
    \* packet hash table: RegisterHash, UnregisterHash and the run tasks
    phmMap, chQ, chClosed, nextCh, phmLock, chPanic, aPc, aHash, aLast, lastOp,
    spawned, rPc, rHashes, rIdx, rCh, offered,
    \* SubPath
    subPath, subHop, subOut,
    \* rx(): the field tc.packets, the callers and the reader sets
    tcPackets, xPc, xGot, rdQ, fwd

chanVars == <<socketFD, nextFD, repairPc, brokenFD, sendFailures>>
rxVars == <<wire, packets, packetsMade>>
listenerVars == <<listenerMap, lqueue, lclosed>>
boomVars == <<bPath, bTimeout, mainPc, rxPc, txPc, txTime, sendErr, heldFD,
              seenResult, pending, returned, hits>>
pathVars == <<filter, mode, srcIsLocal, script, captured, callResult,
              capturePc, capturePkt, listenerReadySignalSent, foundQ, doneQ,
              senderPc, resumePc, pFD, ttl, emitVal, hops, pathClosed, pathSent,
              taken>>
sweepVars == <<sKind, sPath, numPackets, sPc, drvPc, packetCount, wPc, wRes,
               pPc, pCount, dPc, dHeld, out, outClosed>>
sock6Vars == <<socket6FD, repair6Pc, broken6FD>>
callerVars == <<kPc, kCall, kLast>>
sockVars == <<closedFDs, failedFDs, sock6Vars, callerVars, closeCalled>>
capVars == <<numDevices, hClosed, rdPc, packetsClosed, dispPc>>
buildVars == <<bldPath, bldPayloadLen, bldOut>>
hashVars == <<phmMap, chQ, chClosed, nextCh, phmLock, chPanic, aPc, aHash,
              aLast, lastOp, spawned, rPc, rHashes, rIdx, rCh, offered>>
subVars == <<subPath, subHop, subOut>>
raceVars == <<tcPackets, xPc, xGot, rdQ, fwd>>
moreVars == <<hashVars, subVars, raceVars>>
extVars == <<sweepVars, sockVars, capVars, buildVars, moreVars>>
coreVars == <<rxVars, listenerVars, now, boomVars, pathVars>>
vars == <<chanVars, rxVars, listenerVars, now, boomVars, pathVars, extVars>>

\* ------------------------------------------------- JSON payload conversion
\* net.IP marshals to its text form and is parsed back on unmarshal.
IPText(ip) == IF ip = NilIP THEN <<"text">> ELSE <<"text", ip>>
ParseIPText(t) == IF Len(t) < 2 THEN NilIP ELSE t[2]

NewBoomerangPayload(destIP, id) ==
    [DestIP |-> destIP, ID |-> id, TxTimestamp |-> ZeroTime, RxTimestamp |-> ZeroTime]

Marshal(pl) ==
    [DestIP |-> IPText(pl.DestIP), ID |-> pl.ID,
     TxTimestamp |-> pl.TxTimestamp, RxTimestamp |-> pl.RxTimestamp]

Unmarshal(b) ==
    [DestIP |-> ParseIPText(b.DestIP), ID |-> b.ID,
     TxTimestamp |-> b.TxTimestamp, RxTimestamp |-> b.RxTimestamp]

EmptyPayload == NewBoomerangPayload(NilIP, NoID)

\* uuid.New(): a fresh identifier per call
NewUUID(p) == <<"uuid", p>>

\* ---------------------------------------------------------------- results
BoomerangResult(err, errorType, payload) ==
    [Err |-> err, ErrorType |-> errorType, Payload |-> payload]

FatalResult == BoomerangResult(TRUE, fatal, EmptyPayload)

\* the result built by the receive task: only Payload is set, so ErrorType
\* and Err keep their zero values
SeenResult(bytes, t) ==
    BoomerangResult(FALSE, 0, [Unmarshal(bytes) EXCEPT !.RxTimestamp = t])

SendErrorResult(path) ==
    BoomerangResult(TRUE, sendError, [EmptyPayload EXCEPT !.DestIP = Last(path)])

TimedOutResultStampedLate(path, tx, t) ==
    BoomerangResult(TRUE, timedOut,
        [EmptyPayload EXCEPT !.DestIP = Last(path), !.TxTimestamp = t,
                             !.RxTimestamp = t])

TimedOutResult(path, tx, t) ==
    BoomerangResult(TRUE, timedOut,
        [EmptyPayload EXCEPT !.DestIP = Last(path), !.TxTimestamp = tx,
                             !.RxTimestamp = t])

\* the packet as it comes back: the last IP header is path[1] -> path[0]
RoundTripPacket(path, bytes) == [src |-> path[2], dst |-> path[1], payload |-> bytes]

\* CreateRoundTripPacketForPath fails on a path shorter than 2
CreateRoundTripFails(path) == Len(path) < 2

\* the listener's predicate of probe p
criteriaIgnoresID(p, pkt) ==
    /\ pkt.dst = bPath[p][1]
    /\ pkt.src = bPath[p][2]

criteria(p, pkt) ==
    /\ pkt.dst = bPath[p][1]
    /\ pkt.src = bPath[p][2]
    /\ Unmarshal(pkt.payload).ID = NewUUID(p)


\* ------------------------------------------------------------ raw socket
\* unix.Socket returns the lowest descriptor number that is not open, so the
\* number of a closed socket is handed out again. nextFD is the number the
\* next unix.Socket returns; closedFDs and failedFDs hold the numbers that
\* are closed, or name a socket on which sends fail, until the number is
\* handed out again.
LowestFree(open) ==
    CHOOSE n \in 1..(Cardinality(open) + 1) :
        n \notin open /\ \A k \in 1..(n - 1) : k \in open

\* if brokenFD != tc.socketFD { continue }
NoticeIsStale(broken, held) == broken # held

\* renewSocketFD after it took brokenFD from the failure queue: a notice
\* about another FD than the held one is skipped, otherwise a new socket
\* replaces the held one and the broken one is closed unless the new socket
\* got its number.
RepairRenewKeepsSocket ==
    /\ repairPc = "renew"
    /\ repairPc' = "recv"
    /\ brokenFD' = NoFD
    /\ UNCHANGED <<socketFD, nextFD, closedFDs, failedFDs>>
    /\ UNCHANGED <<sendFailures, coreVars, sweepVars, sock6Vars,
                   callerVars, closeCalled, capVars, buildVars, moreVars>>

RepairRenew ==
    /\ repairPc = "renew"
    /\ IF NoticeIsStale(brokenFD, socketFD)
          THEN UNCHANGED <<socketFD, nextFD, closedFDs, failedFDs>>
          ELSE /\ socketFD' = nextFD
               /\ closedFDs' = (closedFDs \ {nextFD}) \cup
                                   (IF brokenFD # nextFD THEN {brokenFD} ELSE {})
               /\ failedFDs' = failedFDs \ {nextFD}
               /\ nextFD' = LowestFree({nextFD, socket6FD} \ closedFDs')
    /\ repairPc' = "recv"
    /\ brokenFD' = NoFD
    /\ UNCHANGED <<sendFailures, coreVars, sweepVars, sock6Vars,
                   callerVars, closeCalled, capVars, buildVars, moreVars>>

\* ---------------------------------------------------------- listener table
RegisterListener(m, p) == Append(m, p)

RECURSIVE Without(_, _)
Without(m, p) ==
    IF m = <<>> THEN <<>>
    ELSE IF Head(m) = p THEN Without(Tail(m), p)
    ELSE <<Head(m)>> \o Without(Tail(m), p)

InTable(m, p) == \E i \in 1..Len(m) : m[i] = p

UnregisterListener(m, p) == Without(m, p)

\* the queue of every listener whose predicate accepts pkt gets pkt unless it
\* is full (capacity 1)
Matching(pkt) == {l \in Probes : InTable(listenerMap, l) /\ criteria(l, pkt)}

Delivered(pkt) == {l \in Matching(pkt) : Len(lqueue[l]) < 1}

ListenerRun(pkt) ==
    /\ lqueue' = [l \in Probes |->
                    IF l \in Delivered(pkt) THEN Append(lqueue[l], pkt) ELSE lqueue[l]]
    /\ hits' = [l \in Probes |->
                    IF l \in Delivered(pkt) /\ hits[l] = ZeroTime THEN now ELSE hits[l]]
    /\ UNCHANGED <<listenerMap, lclosed>>

\* ------------------------------------------------------ capture, dispatch
\* a capture reader forwards a packet from the wire to the receive queue
Capture(pkt) ==
    /\ packetsMade
    /\ pkt \in wire
    /\ wire' = wire \ {pkt}
    /\ packets' = Append(packets, pkt)
    /\ UNCHANGED <<chanVars, packetsMade, listenerVars, now, boomVars, pathVars>>
    /\ UNCHANGED extVars

\* the dispatch task takes the next packet and runs the listener table on it
Dispatch ==
    /\ packets # <<>>
    /\ ListenerRun(Head(packets))
    /\ packets' = Tail(packets)
    /\ UNCHANGED <<chanVars, wire, packetsMade, now, bPath, bTimeout, mainPc, rxPc, txPc,
                   txTime, sendErr, heldFD, seenResult, pending, returned, pathVars>>
    /\ UNCHANGED extVars

Tick ==
    /\ now < StartTime + MaxTime
    /\ now' = now + 1
    /\ UNCHANGED <<chanVars, rxVars, listenerVars, boomVars, pathVars>>
    /\ UNCHANGED extVars


\* ---------------------------------------------------------------- Boomerang
\* the order of Boomerang's own steps after the packet is built: it registers
\* the listener, then starts the receive and the send task, then waits for
\* the result
MainNextSpawnFirst(pc) ==
    CASE pc = "build" -> "spawn"
      [] pc = "spawn" -> "register"
      [] pc = "register" -> "wait"

MainNext(pc) ==
    CASE pc = "build" -> "register"
      [] pc = "register" -> "spawn"
      [] pc = "spawn" -> "wait"

\* Boomerang(path, timeout) up to the packet: a path shorter than 2 ends the
\* call with a fatal result
Boomerang(p, path, timeout) ==
    /\ mainPc[p] = "idle"
    /\ bPath' = [bPath EXCEPT ![p] = path]
    /\ bTimeout' = [bTimeout EXCEPT ![p] = timeout]
    /\ IF CreateRoundTripFails(path)
          THEN /\ returned' = [returned EXCEPT ![p] = <<FatalResult>>]
               /\ mainPc' = [mainPc EXCEPT ![p] = "returned"]
          ELSE /\ mainPc' = [mainPc EXCEPT ![p] = MainNext("build")]
               /\ UNCHANGED returned
    /\ UNCHANGED <<chanVars, rxVars, listenerVars, now, rxPc, txPc, txTime, sendErr, heldFD,
                   seenResult, pending, hits, pathVars>>
    /\ UNCHANGED extVars

BoomerangRegister(p) ==
    /\ mainPc[p] = "register"
    /\ listenerMap' = RegisterListener(listenerMap, p)
    /\ lqueue' = [lqueue EXCEPT ![p] = <<>>]
    /\ lclosed' = [lclosed EXCEPT ![p] = FALSE]
    /\ mainPc' = [mainPc EXCEPT ![p] = MainNext("register")]
    /\ UNCHANGED <<chanVars, rxVars, now, bPath, bTimeout, rxPc, txPc, txTime, sendErr, heldFD,
                   seenResult, pending, returned, hits, pathVars>>
    /\ UNCHANGED extVars

BoomerangSpawn(p) ==
    /\ mainPc[p] = "spawn"
    /\ rxPc' = [rxPc EXCEPT ![p] = "ready"]
    /\ txPc' = [txPc EXCEPT ![p] = "waitReady"]
    /\ mainPc' = [mainPc EXCEPT ![p] = MainNext("spawn")]
    /\ UNCHANGED <<chanVars, rxVars, listenerVars, now, bPath, bTimeout, txTime, sendErr, heldFD,
                   seenResult, pending, returned, hits, pathVars>>
    /\ UNCHANGED extVars

\* listenerReady <- true meets <-listenerReady
ListenerReady(p) ==
    /\ rxPc[p] = "ready"
    /\ txPc[p] = "waitReady"
    /\ rxPc' = [rxPc EXCEPT ![p] = "range"]
    /\ txPc' = [txPc EXCEPT ![p] = "send"]
    /\ UNCHANGED <<chanVars, rxVars, listenerVars, now, bPath, bTimeout, mainPc, txTime,
                   sendErr, heldFD, seenResult, pending, returned, hits, pathVars>>
    /\ UNCHANGED extVars

\* the receive task takes the matching packet from the listener's queue
RxRecv(p) ==
    /\ rxPc[p] = "range"
    /\ lqueue[p] # <<>>
    /\ seenResult' = [seenResult EXCEPT ![p] = <<SeenResult(Head(lqueue[p]).payload, now)>>]
    /\ lqueue' = [lqueue EXCEPT ![p] = Tail(lqueue[p])]
    /\ rxPc' = [rxPc EXCEPT ![p] = "seen"]
    /\ UNCHANGED <<chanVars, rxVars, listenerMap, lclosed, now, bPath, bTimeout, mainPc,
                   txPc, txTime, sendErr, heldFD, pending, returned, hits, pathVars>>
    /\ UNCHANGED extVars

\* the range over a closed and drained queue ends the receive task
RxClosed(p) ==
    /\ rxPc[p] = "range"
    /\ lqueue[p] = <<>>
    /\ lclosed[p]
    /\ rxPc' = [rxPc EXCEPT ![p] = "done"]
    /\ UNCHANGED <<chanVars, rxVars, listenerVars, now, bPath, bTimeout, mainPc, txPc,
                   txTime, sendErr, heldFD, seenResult, pending, returned, hits, pathVars>>
    /\ UNCHANGED extVars

\* the send task starts the timer, records txTime and calls SendToPath; the
\* sendto either puts the packet on the wire or fails
TxSend(p, ok) ==
    /\ txPc[p] = "send"
    /\ txTime' = [txTime EXCEPT ![p] = now]
    /\ sendErr' = [sendErr EXCEPT ![p] = ~ok]
    /\ IF ok
          THEN /\ wire' = wire \cup
                     {RoundTripPacket(bPath[p],
                          Marshal(NewBoomerangPayload(Last(bPath[p]), NewUUID(p))))}
               /\ txPc' = [txPc EXCEPT ![p] = "select"]
               /\ UNCHANGED <<heldFD, sendFailures>>
          ELSE /\ sendFailures < MaxSendFailures
               /\ sendFailures' = sendFailures + 1
               /\ heldFD' = [heldFD EXCEPT ![p] = socketFD]
               /\ txPc' = [txPc EXCEPT ![p] = "notify"]
               /\ UNCHANGED wire
    /\ UNCHANGED <<socketFD, nextFD, repairPc, brokenFD, packets, packetsMade,
                   listenerVars, now, bPath, bTimeout, mainPc, rxPc, seenResult, pending,
                   returned, hits, pathVars>>
    /\ UNCHANGED extVars

\* where the send task goes once SendToPath has returned an error
AfterSendErrorFallThrough == "select"

AfterSendError == "result"

\* SendTo hands the failed FD to the repair task and returns the error; the
\* send task then builds the sendError result
TxNotify(p) ==
    /\ txPc[p] = "notify"
    /\ repairPc = "recv"
    /\ repairPc' = "renew"
    /\ brokenFD' = heldFD[p]
    /\ heldFD' = [heldFD EXCEPT ![p] = NoFD]
    /\ pending' = [pending EXCEPT ![p] = <<SendErrorResult(bPath[p])>>]
    /\ txPc' = [txPc EXCEPT ![p] = AfterSendError]
    /\ UNCHANGED <<socketFD, nextFD, sendFailures, rxVars, listenerVars, now, bPath,
                   bTimeout, mainPc, rxPc, txTime, sendErr, seenResult, returned, hits,
                   pathVars>>
    /\ UNCHANGED extVars

\* select: case result := <-seen
TxSeen(p) ==
    /\ txPc[p] = "select"
    /\ rxPc[p] = "seen"
    /\ pending' = [pending EXCEPT ![p] =
                     <<[seenResult[p][1] EXCEPT !.Payload.TxTimestamp = txTime[p]]>>]
    /\ rxPc' = [rxPc EXCEPT ![p] = "done"]
    /\ txPc' = [txPc EXCEPT ![p] = "result"]
    /\ UNCHANGED <<chanVars, rxVars, listenerVars, now, bPath, bTimeout, mainPc, txTime,
                   sendErr, heldFD, seenResult, returned, hits, pathVars>>
    /\ UNCHANGED extVars

TimerFired(p) == now >= txTime[p] + bTimeout[p]

\* select: case <-timer.C
TxTimeout(p) ==
    /\ txPc[p] = "select"
    /\ TimerFired(p)
    /\ listenerMap' = UnregisterListener(listenerMap, p)
    /\ lclosed' = [lclosed EXCEPT ![p] = TRUE]
    /\ pending' = [pending EXCEPT ![p] = <<TimedOutResult(bPath[p], txTime[p], now)>>]
    /\ txPc' = [txPc EXCEPT ![p] = "result"]
    /\ UNCHANGED <<chanVars, rxVars, lqueue, now, bPath, bTimeout, mainPc, rxPc, txTime,
                   sendErr, heldFD, seenResult, returned, hits, pathVars>>
    /\ UNCHANGED extVars

\* resultChan <- result meets return <-resultChan
Return(p) ==
    /\ txPc[p] = "result"
    /\ mainPc[p] = "wait"
    /\ returned' = [returned EXCEPT ![p] = Append(returned[p], pending[p][1])]
    /\ mainPc' = [mainPc EXCEPT ![p] = "returned"]
    /\ txPc' = [txPc EXCEPT ![p] = "done"]
    /\ UNCHANGED <<chanVars, rxVars, listenerVars, now, bPath, bTimeout, rxPc, txTime,
                   sendErr, heldFD, seenResult, pending, hits, pathVars>>
    /\ UNCHANGED extVars


\* ------------------------------------------------------------ path discovery
LocalIP == "S"
DestIP == "D"
Loopback == "127.0.0.1"
Packet(type, src, dst) == [type |-> type, src |-> src, dst |-> dst]

Filters == {"icmp", "icmp or udp", "ip proto 4", ""}

\* the calls explored: the entry point, whether the source given to
\* GetPathChannelFromSourceToDest is the local address, and what the capture
\* side delivers, in order
Scenario(m, local, sc) == [mode |-> m, srcIsLocal |-> local, script |-> sc]

Scenarios ==
    { Scenario("To", FALSE,
          <<Packet("TTLExceeded", "R1", LocalIP), Packet("TTLExceeded", "R2", LocalIP),
            Packet("PortUnreachable", DestIP, LocalIP)>>),
      Scenario("To", FALSE,
          <<Packet("PortUnreachable", Loopback, LocalIP),
            Packet("TTLExceeded", "R1", "X")>>),
      Scenario("From", FALSE,
          <<Packet("TTLExceeded", "R1", LocalIP),
            Packet("EchoRequest", DestIP, LocalIP)>>),
      Scenario("SrcDst", FALSE,
          <<Packet("TTLExceeded", "R1", LocalIP),
            Packet("EchoReply", DestIP, LocalIP)>>),
      Scenario("SrcDst", TRUE,
          <<Packet("PortUnreachable", DestIP, LocalIP)>>) }

\* the filter test of the three discoveries
FilterContainsICMP(f) == f \in {"icmp", "icmp or udp"}

FilterIsICMP(f) == f = "icmp"

\* GetPathChannelFromSourceToDest hands over to GetPathChannelTo when the
\* source is the local address
Engine == IF mode = "SrcDst" /\ srcIsLocal THEN "To" ELSE mode

\* what a capture task sends for a packet: the hops on found, then whether it
\* signals done and returns
Classify(engine, pkt) ==
    CASE engine = "To" ->
            IF pkt.type = "TTLExceeded" /\ pkt.dst = LocalIP
               THEN [found |-> <<pkt.src>>, done |-> FALSE]
            ELSE IF pkt.type = "PortUnreachable" /\ pkt.src # Loopback
               THEN [found |-> <<pkt.src, DestIP>>, done |-> TRUE]
            ELSE [found |-> <<>>, done |-> FALSE]
      [] engine = "From" ->
            IF pkt.type = "TTLExceeded" /\ pkt.dst = LocalIP
               THEN [found |-> <<pkt.src>>, done |-> FALSE]
            ELSE IF pkt.type = "EchoRequest" /\ pkt.src = DestIP
               THEN [found |-> <<pkt.dst>>, done |-> TRUE]
            ELSE [found |-> <<>>, done |-> FALSE]
      [] engine = "SrcDst" ->
            IF pkt.type = "TTLExceeded" /\ pkt.dst = LocalIP
               THEN [found |-> <<pkt.src>>, done |-> FALSE]
            ELSE IF pkt.type = "EchoReply" /\ pkt.src = DestIP
               THEN [found |-> <<pkt.src>>, done |-> TRUE]
            ELSE [found |-> <<>>, done |-> FALSE]

\* where the capture task stands with these sends still to make
CapturePcFor(found, done) ==
    IF found # <<>> THEN "found" ELSE IF done THEN "done" ELSE "range"

\* the three entry points: the filter test, then the two tasks
GetPathChannel ==
    /\ callResult = "none"
    /\ IF ~FilterIsICMP(filter)
          THEN /\ callResult' = "error"
               /\ UNCHANGED <<capturePc, senderPc, ttl>>
          ELSE /\ callResult' = "ok"
               /\ capturePc' = "start"
               /\ senderPc' = IF Engine = "To" THEN "prime" ELSE "send"
               /\ ttl' = 1
    /\ UNCHANGED <<chanVars, rxVars, listenerVars, now, boomVars, filter, mode,
                   srcIsLocal, script, captured, capturePkt, listenerReadySignalSent,
                   foundQ, doneQ, resumePc, pFD, emitVal, hops, pathClosed, pathSent,
                   taken>>
    /\ UNCHANGED extVars

\* the capture task's call of rx(): the first call makes the receive queue
\* and starts the capture readers
CaptureRx ==
    /\ capturePc = "start"
    /\ packetsMade' = TRUE
    /\ capturePc' = "range"
    /\ UNCHANGED <<chanVars, wire, packets, listenerVars, now, boomVars, filter, mode,
                   srcIsLocal, script, captured, callResult, capturePkt,
                   listenerReadySignalSent, foundQ, doneQ, senderPc, resumePc, pFD, ttl,
                   emitVal, hops, pathClosed, pathSent, taken>>
    /\ UNCHANGED extVars

\* a capture reader forwards the next packet of the script
PathCapture ==
    /\ packetsMade
    /\ captured < Len(script)
    /\ packets' = Append(packets, script[captured + 1])
    /\ captured' = captured + 1
    /\ UNCHANGED <<chanVars, wire, packetsMade, listenerVars, now, boomVars, filter,
                   mode, srcIsLocal, script, callResult, capturePc, capturePkt,
                   listenerReadySignalSent, foundQ, doneQ, senderPc, resumePc, pFD, ttl,
                   emitVal, hops, pathClosed, pathSent, taken>>
    /\ UNCHANGED extVars

\* the capture task takes a packet; local-to-destination discovery first
\* signals listenerReady on its first packet
CaptureTake ==
    /\ capturePc = "range"
    /\ packets # <<>>
    /\ packets' = Tail(packets)
    /\ taken' = taken + 1
    /\ IF Engine = "To" /\ ~listenerReadySignalSent
          THEN /\ capturePc' = "ready"
               /\ capturePkt' = <<Head(packets)>>
               /\ UNCHANGED <<foundQ, doneQ>>
          ELSE /\ foundQ' = Classify(Engine, Head(packets)).found
               /\ doneQ' = Classify(Engine, Head(packets)).done
               /\ capturePc' = CapturePcFor(foundQ', doneQ')
               /\ UNCHANGED capturePkt
    /\ UNCHANGED <<chanVars, wire, packetsMade, listenerVars, now, boomVars, filter,
                   mode, srcIsLocal, script, captured, callResult,
                   listenerReadySignalSent, senderPc, resumePc, pFD, ttl, emitVal, hops,
                   pathClosed, pathSent>>
    /\ UNCHANGED extVars

\* listenerReady <- true meets <-listenerReady; the capture task then
\* classifies the packet it holds
PathListenerReady ==
    /\ capturePc = "ready"
    /\ senderPc = "waitReady"
    /\ listenerReadySignalSent' = TRUE
    /\ foundQ' = Classify(Engine, capturePkt[1]).found
    /\ doneQ' = Classify(Engine, capturePkt[1]).done
    /\ capturePc' = CapturePcFor(foundQ', doneQ')
    /\ capturePkt' = <<>>
    /\ senderPc' = "send"
    /\ UNCHANGED <<chanVars, rxVars, listenerVars, now, boomVars, filter, mode,
                   srcIsLocal, script, captured, callResult, resumePc, pFD, ttl, emitVal,
                   hops, pathClosed, pathSent, taken>>
    /\ UNCHANGED extVars

\* where the sender goes after a SendTo
AfterSend(engine, pc) ==
    CASE pc = "prime" -> "waitReady"
      [] pc = "send" -> IF engine = "From" THEN "send2" ELSE "select"
      [] pc = "send2" -> "select"

\* the sender's SendTo calls: the priming packet, the probe of this TTL (two
\* packets in remote-to-local discovery); an error is printed or dropped
PathSendTo(ok) ==
    /\ senderPc \in {"prime", "send", "send2"}
    /\ pathSent' = pathSent + 1
    /\ IF ok
          THEN /\ senderPc' = AfterSend(Engine, senderPc)
               /\ UNCHANGED <<sendFailures, resumePc, pFD>>
          ELSE /\ sendFailures < MaxSendFailures
               /\ sendFailures' = sendFailures + 1
               /\ pFD' = socketFD
               /\ resumePc' = AfterSend(Engine, senderPc)
               /\ senderPc' = "notify"
    /\ UNCHANGED <<socketFD, nextFD, repairPc, brokenFD, rxVars, listenerVars, now,
                   boomVars, filter, mode, srcIsLocal, script, captured, callResult,
                   capturePc, capturePkt, listenerReadySignalSent, foundQ, doneQ, ttl,
                   emitVal, hops, pathClosed, taken>>
    /\ UNCHANGED extVars

\* SendTo hands the failed FD to the repair task and returns the error
PathNotify ==
    /\ senderPc = "notify"
    /\ repairPc = "recv"
    /\ repairPc' = "renew"
    /\ brokenFD' = pFD
    /\ pFD' = NoFD
    /\ senderPc' = resumePc
    /\ resumePc' = "idle"
    /\ UNCHANGED <<socketFD, nextFD, sendFailures, rxVars, listenerVars, now, boomVars,
                   filter, mode, srcIsLocal, script, captured, callResult, capturePc,
                   capturePkt, listenerReadySignalSent, foundQ, doneQ, ttl, emitVal, hops,
                   pathClosed, pathSent, taken>>
    /\ UNCHANGED extVars

\* select: case ip := <-found
SenderFound ==
    /\ senderPc = "select"
    /\ capturePc = "found"
    /\ emitVal' = Head(foundQ)
    /\ foundQ' = Tail(foundQ)
    /\ capturePc' = CapturePcFor(foundQ', doneQ)
    /\ senderPc' = "emit"
    /\ UNCHANGED <<chanVars, rxVars, listenerVars, now, boomVars, filter, mode,
                   srcIsLocal, script, captured, callResult, capturePkt,
                   listenerReadySignalSent, doneQ, resumePc, pFD, ttl, hops, pathClosed,
                   pathSent, taken>>
    /\ UNCHANGED extVars

\* select: case <-time.After(timeout), for a timeout above 0: the timer is
\* started by the select, so a capture task that already waits on found or
\* done is served first
SenderTimeout ==
    /\ senderPc = "select"
    /\ capturePc \notin {"found", "done"}
    /\ emitVal' = NilIP
    /\ senderPc' = "emit"
    /\ UNCHANGED <<chanVars, rxVars, listenerVars, now, boomVars, filter, mode,
                   srcIsLocal, script, captured, callResult, capturePc, capturePkt,
                   listenerReadySignalSent, foundQ, doneQ, resumePc, pFD, ttl, hops,
                   pathClosed, pathSent, taken>>
    /\ UNCHANGED extVars

\* select: case <-done; the sender returns and the deferred close runs
SenderDone ==
    /\ senderPc = "select"
    /\ capturePc = "done"
    /\ capturePc' = "exit"
    /\ doneQ' = FALSE
    /\ senderPc' = "closed"
    /\ pathClosed' = TRUE
    /\ UNCHANGED <<chanVars, rxVars, listenerVars, now, boomVars, filter, mode,
                   srcIsLocal, script, captured, callResult, capturePkt,
                   listenerReadySignalSent, foundQ, resumePc, pFD, ttl, emitVal, hops,
                   pathSent, taken>>
    /\ UNCHANGED extVars

\* the TTL loop's condition
LoopContinuesOffByOne(t) == t <= MaxTTL + 1

LoopContinues(t) == t <= MaxTTL

\* pathChan <- hop is taken by the reader of the hop channel; then ttl++, and
\* past the last TTL the sender returns and the deferred close runs
SenderEmit ==
    /\ senderPc = "emit"
    /\ hops' = Append(hops, emitVal)
    /\ emitVal' = NilIP
    /\ ttl' = ttl + 1
    /\ IF LoopContinues(ttl + 1)
          THEN /\ senderPc' = "send"
               /\ UNCHANGED pathClosed
          ELSE /\ senderPc' = "closed"
               /\ pathClosed' = TRUE
    /\ UNCHANGED <<chanVars, rxVars, listenerVars, now, boomVars, filter, mode,
                   srcIsLocal, script, captured, callResult, capturePc, capturePkt,
                   listenerReadySignalSent, foundQ, doneQ, resumePc, pFD, pathSent,
                   taken>>
    /\ UNCHANGED extVars

\* ------------------------------------------------------------ initial states
InitChannel ==
    /\ socketFD = 1
    /\ nextFD = 3
    /\ repairPc = "recv"
    /\ brokenFD = NoFD
    /\ sendFailures = 0
    /\ wire = {}
    /\ packets = <<>>
    /\ listenerMap = <<>>
    /\ lqueue = [p \in Probes |-> <<>>]
    /\ lclosed = [p \in Probes |-> FALSE]
    /\ now = StartTime

InitBoomerang ==
    /\ bPath = [p \in Probes |-> <<>>]
    /\ bTimeout = [p \in Probes |-> 0]
    /\ mainPc = [p \in Probes |-> "idle"]
    /\ rxPc = [p \in Probes |-> "none"]
    /\ txPc = [p \in Probes |-> "none"]
    /\ txTime = [p \in Probes |-> ZeroTime]
    /\ sendErr = [p \in Probes |-> FALSE]
    /\ heldFD = [p \in Probes |-> NoFD]
    /\ seenResult = [p \in Probes |-> <<>>]
    /\ pending = [p \in Probes |-> <<>>]
    /\ returned = [p \in Probes |-> <<>>]
    /\ hits = [p \in Probes |-> ZeroTime]

InitPathIdle ==
    /\ captured = 0
    /\ callResult = "none"
    /\ capturePc = "idle"
    /\ capturePkt = <<>>
    /\ listenerReadySignalSent = FALSE
    /\ foundQ = <<>>
    /\ doneQ = FALSE
    /\ senderPc = "idle"
    /\ resumePc = "idle"
    /\ pFD = NoFD
    /\ ttl = 0
    /\ emitVal = NilIP
    /\ hops = <<>>
    /\ pathClosed = FALSE
    /\ pathSent = 0
    /\ taken = 0

\* no sweep has been called
InitSweepIdle ==
    /\ sKind = "none"
    /\ sPath = <<>>
    /\ numPackets = 0
    /\ sPc = "idle"
    /\ drvPc = "none"
    /\ packetCount = 0
    /\ wPc = [w \in Workers |-> "none"]
    /\ wRes = [w \in Workers |-> NoResult]
    /\ pPc = [i \in Idxs |-> "none"]
    /\ pCount = [i \in Idxs |-> 0]
    /\ dPc = [i \in Idxs |-> "none"]
    /\ dHeld = [i \in Idxs |-> NoResult]
    /\ out = <<>>
    /\ outClosed = FALSE

\* NewTransportChannel: the IPv4 socket, then the IPv6 socket, each with its
\* repair task waiting on its failure queue; nobody has called SendTo or Close
InitSockets ==
    /\ closedFDs = {}
    /\ failedFDs = {}
    /\ socket6FD = 2
    /\ repair6Pc = "recv"
    /\ broken6FD = NoFD
    /\ kPc = [s \in Senders |-> "idle"]
    /\ kCall = [s \in Senders |-> NoCall]
    /\ kLast = [s \in Senders |-> NoCall]
    /\ closeCalled = FALSE

\* one capture handle, open; no reader started
InitCaptureIdle ==
    /\ numDevices = 1
    /\ hClosed = {}
    /\ rdPc = [d \in Devices |-> "none"]
    /\ packetsClosed = FALSE
    /\ dispPc = "none"

InitBuilderIdle ==
    /\ bldPath = <<>>
    /\ bldPayloadLen = 0
    /\ bldOut = NotBuilt

\* ------------------------------------------------ packet hash table: values
\* tasks of the application: task 1 calls RegisterHash and UnregisterHash,
\* task 2 only UnregisterHash
Apps == {1, 2}
\* the hashes the application registers
Hashes == {"h1"}
\* captured packets, numbered in the order the dispatch task takes them
RunTasks == 1..MaxRun
Chans == 1..MaxChans
NoCh == 0
NoTask == 0
\* a packet as the hasher sees it: the length of its application payload and
\* the leading bytes of that payload
RunPackets == {[len |-> 19, head |-> "h1"], [len |-> hashLen, head |-> "h1"],
               [len |-> hashLen, head |-> "h2"]}
\* the last UnregisterHash a task returned from: its argument, what it
\* returned, and the call on that hash that completed before it
NoOp == [hash |-> "", ret |-> FALSE, prev |-> "none"]

\* NewPacketHashMap: an empty table, nobody holds the mutex, no packet taken
InitHashIdle ==
    /\ phmMap = [h \in Hashes |-> NoCh]
    /\ chQ = [c \in Chans |-> <<>>]
    /\ chClosed = {}
    /\ nextCh = 1
    /\ phmLock = NoTask
    /\ chPanic = FALSE
    /\ aPc = [a \in Apps |-> "idle"]
    /\ aHash = [a \in Apps |-> ""]
    /\ aLast = [a \in Apps |-> NoOp]
    /\ lastOp = [h \in Hashes |-> "none"]
    /\ spawned = 0
    /\ rPc = [p \in RunTasks |-> "none"]
    /\ rHashes = [p \in RunTasks |-> <<>>]
    /\ rIdx = [p \in RunTasks |-> 0]
    /\ rCh = [p \in RunTasks |-> NoCh]
    /\ offered = [c \in Chans |-> <<>>]

\* SubPath has not been called
NoSubPath == [called |-> FALSE, path |-> <<>>]
InitSubIdle ==
    /\ subPath = <<>>
    /\ subHop = NilIP
    /\ subOut = NoSubPath

\* nobody has called rx()
InitRxIdle ==
    /\ tcPackets = NoQueue
    /\ xPc = [c \in RxCallers |-> "none"]
    /\ xGot = [c \in RxCallers |-> NoQueue]
    /\ rdQ = [c \in RxCallers |-> NoQueue]
    /\ fwd = [q \in Queues |-> 0]

InitExtIdle ==
    /\ InitSweepIdle
    /\ InitSockets
    /\ InitCaptureIdle
    /\ InitBuilderIdle
    /\ InitHashIdle
    /\ InitRxIdle
    /\ InitSubIdle

\* a channel built with the default useListeners = true: the dispatch task
\* has called rx(), so the receive queue exists and the readers run
InitB ==
    /\ InitChannel
    /\ packetsMade = TRUE
    /\ InitBoomerang
    /\ InitPathIdle
    /\ InitExtIdle
    /\ filter = "ip proto 4"
    /\ mode = "To"
    /\ srcIsLocal = FALSE
    /\ script = <<>>

NextB ==
    \/ \E p \in Probes, path \in PathSet, t \in Timeouts : Boomerang(p, path, t)
    \/ \E p \in Probes : BoomerangRegister(p)
    \/ \E p \in Probes : BoomerangSpawn(p)
    \/ \E p \in Probes : ListenerReady(p)
    \/ \E p \in Probes : RxRecv(p)
    \/ \E p \in Probes : RxClosed(p)
    \/ \E p \in Probes, ok \in BOOLEAN : TxSend(p, ok)
    \/ \E p \in Probes : TxNotify(p)
    \/ \E p \in Probes : TxSeen(p)
    \/ \E p \in Probes : TxTimeout(p)
    \/ \E p \in Probes : Return(p)
    \/ RepairRenew
    \/ \E pkt \in wire : Capture(pkt)
    \/ Dispatch
    \/ Tick

SpecB == InitB /\ [][NextB]_vars


\* ------------------------------------------------------- Boomerang: claims
HasReturned(p) == mainPc[p] = "returned"
Result(p) == returned[p][1]
\* the call went through its send task (it did not end on a fatal error)
RanSendTask(p) == HasReturned(p) /\ txPc[p] = "done"

\* C1: whenever the send task of a probe is about to call SendToPath, and
\* ever after it has called it and until the probe's own timeout, the probe's
\* listener is in the listener table: no packet leaves before the registration.
C1_RegisterBeforeSend ==
    \A p \in Probes :
        /\ txPc[p] \in {"send", "notify", "select"} => InTable(listenerMap, p)
        /\ \A pkt \in wire : Unmarshal(pkt.payload).ID = NewUUID(p) =>
               InTable(listenerMap, p) \/ txPc[p] \in {"result", "done"}

C1_Witness ==
    \E p \in Probes :
        /\ txPc[p] = "select"
        /\ InTable(listenerMap, p)
        /\ \E pkt \in wire : Unmarshal(pkt.payload).ID = NewUUID(p)

\* C2: once Boomerang has returned, with a matching reply or timed out, the
\* listener it registered is no longer in the listener table.
C2_ListenerGoneAfterReturn ==
    \A p \in Probes : (RanSendTask(p) /\ ~sendErr[p]) => ~InTable(listenerMap, p)

C4_OkResult ==
    \A p \in Probes :
        (RanSendTask(p) /\ hits[p] # ZeroTime /\ hits[p] < txTime[p] + bTimeout[p]) =>
            /\ Result(p).ErrorType \notin {timedOut, fatal, sendError}
            /\ Result(p).Payload.RxTimestamp >= hits[p]
            /\ Result(p).Payload.TxTimestamp = txTime[p]

\* C5: every result Boomerang returns carries the last hop of the path as its
\* payload's destIP, whatever its errorType.
C5_DestIPAlways ==
    \A p \in Probes : HasReturned(p) => Result(p).Payload.DestIP = Last(bPath[p])

FairB ==
    /\ \A p \in Probes : WF_vars(BoomerangRegister(p))
    /\ \A p \in Probes : WF_vars(BoomerangSpawn(p))
    /\ \A p \in Probes : WF_vars(ListenerReady(p))
    /\ \A p \in Probes : WF_vars(RxRecv(p))
    /\ \A p \in Probes : WF_vars(RxClosed(p))
    /\ \A p \in Probes : WF_vars(TxNotify(p))
    /\ \A p \in Probes : WF_vars(TxSeen(p))
    /\ \A p \in Probes : WF_vars(TxTimeout(p))
    /\ \A p \in Probes : WF_vars(Return(p))
    /\ WF_vars(RepairRenew)
    /\ WF_vars(Dispatch)
    /\ WF_vars(Tick)

FairSpecB == SpecB /\ FairB

\* the packet carries the identifier generated by probe p
ReplyTo(p, pkt) == Unmarshal(pkt.payload).ID = NewUUID(p)
\* probes p and q are both under way over paths with the same first two hops
SharePrefix(p, q) ==
    /\ p # q
    /\ Len(bPath[p]) >= 2 /\ Len(bPath[q]) >= 2
    /\ bPath[p][1] = bPath[q][1] /\ bPath[p][2] = bPath[q][2]

\* C29: with several probes in flight over paths that share path[0] and
\* path[1], replies are told apart by id alone: a probe's listener queue and
\* its receive task only ever hold a reply to that probe, and an ok result
\* carries the probe's own id.
C29_CorrelatedByID ==
    \A p \in Probes :
        /\ \A i \in DOMAIN lqueue[p] : ReplyTo(p, lqueue[p][i])
        /\ \A i \in DOMAIN seenResult[p] : seenResult[p][i].Payload.ID = NewUUID(p)
        /\ \A i \in DOMAIN returned[p] :
              ~returned[p][i].Err => returned[p][i].Payload.ID = NewUUID(p)

\* two probes over paths with the same first two hops have both returned an
\* ok result
C29_Witness ==
    \E p, q \in Probes :
        /\ SharePrefix(p, q)
        /\ bPath[p] # bPath[q]
        /\ HasReturned(p) /\ ~Result(p).Err
        /\ HasReturned(q) /\ ~Result(q).Err

\* C30: once a Boomerang call has returned, the receive task and the send
\* task it started end: neither stays blocked on the listener queue or on
\* the hand-off of the result.
C30_TasksTerminate ==
    \A p \in Probes :
        HasReturned(p) ~> (rxPc[p] \in {"none", "done"} /\ txPc[p] \in {"none", "done"})


\* ------------------------------------------------- path discovery: the spec
\* a channel built with UseListeners(false): nobody has called rx() yet
InitP ==
    /\ InitChannel
    /\ packetsMade = FALSE
    /\ InitBoomerang
    /\ InitPathIdle
    /\ InitExtIdle
    /\ filter \in Filters
    /\ \E sc \in Scenarios :
           /\ mode = sc.mode
           /\ srcIsLocal = sc.srcIsLocal
           /\ script = sc.script

NextP ==
    \/ GetPathChannel
    \/ CaptureRx
    \/ PathCapture
    \/ CaptureTake
    \/ PathListenerReady
    \/ \E ok \in BOOLEAN : PathSendTo(ok)
    \/ PathNotify
    \/ RepairRenew
    \/ SenderFound
    \/ SenderTimeout
    \/ SenderDone
    \/ SenderEmit

SpecP == InitP /\ [][NextP]_vars


\* the tasks of the program keep running; what the network delivers and
\* whether a sendto fails is up to the environment
FairP ==
    /\ WF_vars(GetPathChannel)
    /\ WF_vars(CaptureRx)
    /\ WF_vars(CaptureTake)
    /\ WF_vars(PathListenerReady)
    /\ WF_vars(PathSendTo(TRUE))
    /\ WF_vars(PathNotify)
    /\ WF_vars(RepairRenew)
    /\ WF_vars(SenderFound)
    /\ WF_vars(SenderTimeout)
    /\ WF_vars(SenderDone)
    /\ WF_vars(SenderEmit)

FairSpecP == SpecP /\ FairP

\* -------------------------------------------------- path discovery: claims
AllNil(h) == \A i \in 1..Len(h) : h[i] = NilIP
NoNil(h) == \A i \in 1..Len(h) : h[i] # NilIP
HappyScript ==
    <<Packet("TTLExceeded", "R1", LocalIP), Packet("TTLExceeded", "R2", LocalIP),
      Packet("PortUnreachable", DestIP, LocalIP)>>

\* C7: on a channel whose filter is "icmp", a discovery to which the capture
\* side delivers no packet at all eventually has emitted exactly 32 nil hops
\* and closed its hop channel.
C7_NoPacketsAllNil ==
    <>(\/ filter # "icmp"
       \/ captured > 0
       \/ (pathClosed /\ Len(hops) = 32 /\ AllNil(hops)))

\* C8: in local-to-destination discovery, when the capture side delivered
\* TTL-exceeded from R1, TTL-exceeded from R2 and PortUnreachable from the
\* destination D, each in time for its TTL, the closed hop channel has emitted
\* exactly R1, R2, D.
C8_HappyPathHops ==
    (/\ Engine = "To"
     /\ script = HappyScript
     /\ taken = Len(HappyScript)
     /\ pathClosed
     /\ NoNil(hops)) => hops = <<"R1", "R2", DestIP>>

\* C9: a hop channel emits at most 32 items, one per TTL processed, and is
\* closed once TTL 32 has been processed, also without a completion signal.
C9_AtMost32 ==
    /\ Len(hops) <= 32
    /\ callResult = "ok" => Len(hops) = ttl - 1
    /\ ttl > 32 => pathClosed /\ senderPc = "closed"
    /\ pathClosed <=> senderPc = "closed"

C9_Witness ==
    /\ pathClosed
    /\ Len(hops) = 32
    /\ capturePc # "exit"
    /\ ~AllNil(hops)

\* C10: on a channel whose filter is not exactly "icmp" a discovery returns
\* an error at once: no SendTo call, no capture or sender task, no receive
\* queue made or read, no hop emitted.
C10_WrongFilter ==
    filter # "icmp" =>
        /\ callResult \in {"none", "error"}
        /\ pathSent = 0
        /\ capturePc = "idle"
        /\ senderPc = "idle"
        /\ ~packetsMade
        /\ packets = <<>>
        /\ taken = 0
        /\ hops = <<>>
        /\ ~pathClosed

C10_Witness ==
    /\ filter = "icmp or udp"
    /\ callResult = "error"
    /\ pathSent = 0


\* C32: once a discovery's hop channel is closed, by completion or after TTL
\* 32, its capture task takes no further packet from the receive queue and
\* eventually has returned, so that no task of the discovery stays blocked.
C32_CaptureEnds ==
    /\ [][pathClosed => taken' = taken]_vars
    /\ pathClosed ~> capturePc = "exit"


\* ------------------------------------------------------------ probe sweeps
\* ProbeEachHopOfPath and ProbeEachHopOfPathSync of traffic.go. The caller
\* reads the returned stream whenever a task offers a result on it; results
\* are told apart by the packet number and the prefix length they belong to.
SweepFilters == {"ip proto 4", "ip proto 4 or icmp", "icmp", ""}

\* strings.Contains(tc.filter, "ip proto 4")
ContainsIPProto4(f) == f \in {"ip proto 4", "ip proto 4 or icmp"}

SweepResult(w, err, errorType) ==
    [pkt |-> w[1], idx |-> w[2], Err |-> err, ErrorType |-> errorType]

sweepFrame == <<chanVars, coreVars, sockVars, capVars, buildVars, moreVars>>

\* the for loop of the sweep task is over
RoundsDoneEarly(count, n) == count >= n

RoundsDone(count, n) == count > n

\* wg.Wait() of round k returns
WgZeroBeforeEmit(k) ==
    \A i \in 2..Len(sPath) : wPc[<<k, i>>] \in {"hold", "done"}

WgZero(k) == \A i \in 2..Len(sPath) : wPc[<<k, i>>] = "done"

\* wg.Wait() of merge returns
AnyDrained == \E i \in 2..Len(sPath) : dPc[i] = "done"

AllDrained == \A i \in 2..Len(sPath) : dPc[i] = "done"

\* On a filter without "ip proto 4" the call makes an unbuffered channel and
\* sends the fatal result on it before returning it: the calling task waits
\* in that send, and no other task holds the channel.
ProbeEachHopOfPathSync(path, n) ==
    /\ sPc = "idle"
    /\ sKind' = "Sync"
    /\ sPath' = path
    /\ numPackets' = n
    /\ IF ~ContainsIPProto4(filter)
          THEN /\ sPc' = "fatalSend"
               /\ UNCHANGED <<drvPc, packetCount>>
          ELSE /\ sPc' = "returned"
               /\ drvPc' = "loop"
               /\ packetCount' = 1
    /\ UNCHANGED <<wPc, wRes, pPc, pCount, dPc, dHeld, out, outClosed>>
    /\ UNCHANGED sweepFrame

\* one round: wg.Add(len(path)-1) and one task per prefix, each calling
\* Boomerang
SyncSpawn ==
    /\ drvPc = "loop"
    /\ ~RoundsDone(packetCount, numPackets)
    /\ wPc' = [w \in Workers |->
                  IF w[1] = packetCount /\ w[2] <= Len(sPath)
                     THEN "called" ELSE wPc[w]]
    /\ drvPc' = "wait"
    /\ UNCHANGED <<sKind, sPath, numPackets, sPc, packetCount, wRes, pPc, pCount,
                   dPc, dHeld, out, outClosed>>
    /\ UNCHANGED sweepFrame

SyncWait ==
    /\ drvPc = "wait"
    /\ WgZero(packetCount)
    /\ drvPc' = "sleep"
    /\ UNCHANGED <<sKind, sPath, numPackets, sPc, packetCount, wPc, wRes, pPc,
                   pCount, dPc, dHeld, out, outClosed>>
    /\ UNCHANGED sweepFrame

\* time.Sleep(timeout), then the next round
SyncSleep ==
    /\ drvPc = "sleep"
    /\ packetCount' = packetCount + 1
    /\ drvPc' = "loop"
    /\ UNCHANGED <<sKind, sPath, numPackets, sPc, wPc, wRes, pPc, pCount, dPc,
                   dHeld, out, outClosed>>
    /\ UNCHANGED sweepFrame

\* the deferred close(resultChan)
SyncClose ==
    /\ drvPc = "loop"
    /\ RoundsDone(packetCount, numPackets)
    /\ drvPc' = "closed"
    /\ outClosed' = TRUE
    /\ UNCHANGED <<sKind, sPath, numPackets, sPc, packetCount, wPc, wRes, pPc,
                   pCount, dPc, dHeld, out>>
    /\ UNCHANGED sweepFrame

\* a Boomerang call of a sweep, on a prefix of at least two hops: it
\* registers its listener and sends; a failed send ends it with sendError
SweepBoomerangSend(w, ok) ==
    /\ wPc[w] = "called"
    /\ IF ok
          THEN /\ wPc' = [wPc EXCEPT ![w] = "sent"]
               /\ UNCHANGED wRes
          ELSE /\ wPc' = [wPc EXCEPT ![w] = "hold"]
               /\ wRes' = [wRes EXCEPT ![w] = SweepResult(w, TRUE, sendError)]
    /\ UNCHANGED <<sKind, sPath, numPackets, sPc, drvPc, packetCount, pPc, pCount,
                   dPc, dHeld, out, outClosed>>
    /\ UNCHANGED sweepFrame

\* ... and returns the reply it saw, or timedOut
SweepBoomerangReturn(w, seen) ==
    /\ wPc[w] = "sent"
    /\ wPc' = [wPc EXCEPT ![w] = "hold"]
    /\ wRes' = [wRes EXCEPT ![w] = IF seen THEN SweepResult(w, FALSE, 0)
                                           ELSE SweepResult(w, TRUE, timedOut)]
    /\ UNCHANGED <<sKind, sPath, numPackets, sPc, drvPc, packetCount, pPc, pCount,
                   dPc, dHeld, out, outClosed>>
    /\ UNCHANGED sweepFrame

\* resultChan <- tc.Boomerang(...) taken by the caller, then wg.Done()
SyncEmit(w) ==
    /\ sKind = "Sync"
    /\ wPc[w] = "hold"
    /\ out' = Append(out, wRes[w])
    /\ wPc' = [wPc EXCEPT ![w] = "done"]
    /\ wRes' = [wRes EXCEPT ![w] = NoResult]
    /\ UNCHANGED <<sKind, sPath, numPackets, sPc, drvPc, packetCount, pPc, pCount,
                   dPc, dHeld, outClosed>>
    /\ UNCHANGED sweepFrame

\* one Probe per prefix path[0:i], i = 2..len(path), and merge over their
\* streams: one drain task per stream
ProbeEachHopOfPath(path, n) ==
    /\ sPc = "idle"
    /\ sKind' = "Each"
    /\ sPath' = path
    /\ numPackets' = n
    /\ IF ~ContainsIPProto4(filter)
          THEN /\ sPc' = "fatalSend"
               /\ UNCHANGED <<pPc, dPc>>
          ELSE /\ sPc' = "returned"
               /\ pPc' = [i \in Idxs |-> IF i <= Len(path) THEN "loop" ELSE "none"]
               /\ dPc' = [i \in Idxs |-> IF i <= Len(path) THEN "recv" ELSE "none"]
    /\ UNCHANGED <<drvPc, packetCount, wPc, wRes, pCount, dHeld, out, outClosed>>
    /\ UNCHANGED sweepFrame

\* Probe: the loop body calls Boomerang on its prefix
ProbeLoop(i) ==
    /\ pPc[i] = "loop"
    /\ ~RoundsDone(pCount[i] + 1, numPackets)
    /\ wPc' = [wPc EXCEPT ![<<pCount[i] + 1, i>>] = "called"]
    /\ pPc' = [pPc EXCEPT ![i] = "boomerang"]
    /\ UNCHANGED <<sKind, sPath, numPackets, sPc, drvPc, packetCount, wRes, pCount,
                   dPc, dHeld, out, outClosed>>
    /\ UNCHANGED sweepFrame

\* Probe: resultChan <- result, taken by the drain task of this stream
ProbeSend(i) ==
    /\ pPc[i] = "boomerang"
    /\ wPc[<<pCount[i] + 1, i>>] = "hold"
    /\ dPc[i] = "recv"
    /\ dHeld' = [dHeld EXCEPT ![i] = wRes[<<pCount[i] + 1, i>>]]
    /\ dPc' = [dPc EXCEPT ![i] = "forward"]
    /\ wPc' = [wPc EXCEPT ![<<pCount[i] + 1, i>>] = "done"]
    /\ wRes' = [wRes EXCEPT ![<<pCount[i] + 1, i>>] = NoResult]
    /\ pCount' = [pCount EXCEPT ![i] = pCount[i] + 1]
    /\ pPc' = [pPc EXCEPT ![i] = "loop"]
    /\ UNCHANGED <<sKind, sPath, numPackets, sPc, drvPc, packetCount, out,
                   outClosed>>
    /\ UNCHANGED sweepFrame

\* Probe: close(resultChan) after the loop
ProbeClose(i) ==
    /\ pPc[i] = "loop"
    /\ RoundsDone(pCount[i] + 1, numPackets)
    /\ pPc' = [pPc EXCEPT ![i] = "closed"]
    /\ UNCHANGED <<sKind, sPath, numPackets, sPc, drvPc, packetCount, wPc, wRes,
                   pCount, dPc, dHeld, out, outClosed>>
    /\ UNCHANGED sweepFrame

\* drain: resultChannel <- res, taken by the caller
DrainForward(i) ==
    /\ dPc[i] = "forward"
    /\ out' = Append(out, dHeld[i])
    /\ dHeld' = [dHeld EXCEPT ![i] = NoResult]
    /\ dPc' = [dPc EXCEPT ![i] = "recv"]
    /\ UNCHANGED <<sKind, sPath, numPackets, sPc, drvPc, packetCount, wPc, wRes,
                   pPc, pCount, outClosed>>
    /\ UNCHANGED sweepFrame

\* drain: its stream is closed and empty, wg.Done()
DrainDone(i) ==
    /\ dPc[i] = "recv"
    /\ pPc[i] = "closed"
    /\ dPc' = [dPc EXCEPT ![i] = "done"]
    /\ UNCHANGED <<sKind, sPath, numPackets, sPc, drvPc, packetCount, wPc, wRes,
                   pPc, pCount, dHeld, out, outClosed>>
    /\ UNCHANGED sweepFrame

\* merge: wg.Wait(), then close(resultChannel)
MergeClose ==
    /\ sKind = "Each"
    /\ sPc = "returned"
    /\ ~outClosed
    /\ AllDrained
    /\ outClosed' = TRUE
    /\ UNCHANGED <<sKind, sPath, numPackets, sPc, drvPc, packetCount, wPc, wRes,
                   pPc, pCount, dPc, dHeld, out>>
    /\ UNCHANGED sweepFrame

\* a channel with any of the filters, on which one sweep is called
InitS ==
    /\ InitChannel
    /\ packetsMade = TRUE
    /\ InitBoomerang
    /\ InitPathIdle
    /\ InitExtIdle
    /\ filter \in SweepFilters
    /\ mode = "To"
    /\ srcIsLocal = FALSE
    /\ script = <<>>

\* the Boomerang calls started by a sweep
SweepBoomerang ==
    \/ \E w \in Workers, ok \in BOOLEAN : SweepBoomerangSend(w, ok)
    \/ \E w \in Workers, seen \in BOOLEAN : SweepBoomerangReturn(w, seen)

NextSync ==
    \/ \E path \in PathSet, n \in 0..MaxPackets : ProbeEachHopOfPathSync(path, n)
    \/ SyncSpawn
    \/ SyncWait
    \/ SyncSleep
    \/ SyncClose
    \/ SweepBoomerang
    \/ \E w \in Workers : SyncEmit(w)

SpecSync == InitS /\ [][NextSync]_vars

\* every task of a sweep keeps running, every Boomerang call returns and the
\* caller keeps reading; whether a sweep is called is up to the application
FairSync ==
    /\ WF_vars(SyncSpawn)
    /\ WF_vars(SyncWait)
    /\ WF_vars(SyncSleep)
    /\ WF_vars(SyncClose)
    /\ WF_vars(SweepBoomerang)
    /\ \A w \in Workers : WF_vars(SyncEmit(w))

FairSpecSync == SpecSync /\ FairSync

NextEach ==
    \/ \E path \in PathSet, n \in 0..MaxPackets : ProbeEachHopOfPath(path, n)
    \/ SweepBoomerang
    \/ \E i \in Idxs : ProbeLoop(i)
    \/ \E i \in Idxs : ProbeSend(i)
    \/ \E i \in Idxs : ProbeClose(i)
    \/ \E i \in Idxs : DrainForward(i)
    \/ \E i \in Idxs : DrainDone(i)
    \/ MergeClose

SpecEach == InitS /\ [][NextEach]_vars

\* ---------------------------------------------------- probe sweeps: claims
SweepTotal == numPackets * (Len(sPath) - 1)
Emitted(w) == \E j \in 1..Len(out) : out[j].pkt = w[1] /\ out[j].idx = w[2]
EmittedOf(i) == Cardinality({j \in 1..Len(out) : out[j].idx = i})
Running(w) == wPc[w] \in {"called", "sent", "hold"}

\* C11: a sweep called on a channel whose filter does not contain
\* "ip proto 4" eventually has returned its stream to the caller, who has
\* received exactly one result from it, of type fatal, and no Boomerang was
\* started.
C11_FatalStream ==
    [](sPc # "idle" /\ ~ContainsIPProto4(filter)
         => <>(/\ sPc = "returned"
               /\ Len(out) = 1
               /\ out[1].ErrorType = fatal))

\* C12: on a channel whose filter contains "ip proto 4",
\* ProbeEachHopOfPathSync never emits more than numPackets * (|path| - 1)
\* results, has emitted exactly that many when its stream is closed, with no
\* Boomerang call left unfinished, and does close its stream.
C12_SyncEmitsAll ==
    /\ [](sKind = "Sync" /\ sPc = "returned" =>
            /\ Len(out) <= SweepTotal
            /\ outClosed => /\ Len(out) = SweepTotal
                            /\ \A w \in Workers : ~Running(w))
    /\ [](sKind = "Sync" /\ sPc = "returned" => <>outClosed)

C12_Witness ==
    /\ sKind = "Sync"
    /\ outClosed
    /\ Len(out) = 4
    /\ \E i, j, k \in 1..Len(out) :
           /\ out[i].ErrorType = sendError
           /\ out[j].ErrorType = timedOut /\ out[j].Err
           /\ ~out[k].Err

\* C13: in ProbeEachHopOfPathSync, while a Boomerang call of round k has
\* been called (and so before it registers its listener or sends), every
\* result of every earlier round has been emitted on the stream.
C13_RoundsDoNotOverlap ==
    sKind = "Sync" =>
        \A w \in Workers : wPc[w] # "none" =>
            \A v \in Workers :
                v[1] < w[1] /\ v[2] <= Len(sPath) => wPc[v] = "done" /\ Emitted(v)

C13_Witness ==
    /\ sKind = "Sync"
    /\ Len(sPath) = 3
    /\ wPc[<<2, 2>>] = "sent"
    /\ wPc[<<2, 3>>] = "called"

\* C14: ProbeEachHopOfPath launches one Probe per prefix path[0..i],
\* i = 2..|path|; a Probe runs its Boomerang calls one after the other, the
\* next only after the previous result was taken, and closes its stream after
\* numPackets results; the merged stream is closed only after every prefix
\* stream is closed, and then carries numPackets results of every prefix.
C14_ProbeAndMerge ==
    sKind = "Each" /\ sPc = "returned" =>
        /\ {i \in Idxs : pPc[i] # "none"} = 2..Len(sPath)
        /\ \A w \in Workers : Running(w) =>
               /\ pPc[w[2]] = "boomerang"
               /\ pCount[w[2]] = w[1] - 1
               /\ \A v \in Workers : v[2] = w[2] /\ v # w => ~Running(v)
        /\ \A i \in 2..Len(sPath) :
               /\ EmittedOf(i) <= pCount[i]
               /\ pCount[i] <= numPackets
               /\ pPc[i] = "closed" => pCount[i] = numPackets
        /\ outClosed =>
               /\ \A i \in 2..Len(sPath) :
                      pPc[i] = "closed" /\ EmittedOf(i) = numPackets
               /\ Len(out) = SweepTotal

C14_Witness ==
    /\ sKind = "Each"
    /\ outClosed
    /\ Len(sPath) = 3
    /\ numPackets = 2
    /\ Len(out) = 4


\* ----------------------------------------------- sockets, SendTo and Close
\* Two tasks send on one channel, the first by SendTo and the second by
\* SendToPath, while the application may call Close. A sendto fails on a
\* closed descriptor, on a descriptor on which a sendto failed before, and
\* when the environment breaks the socket at this very call.
V4Dests == {"B"}
V6Dests == {"B6"}
SendPaths == {<<>>, <<"A">>, <<"A", "B">>}

\* destAddr.To4() != nil
IsV4(ip) == ip \in {"A", "B", "C"}

HeldFD(dest) == IF IsV4(dest) THEN socketFD ELSE socket6FD

SendFails(fd) == fd = NoFD \/ fd \in closedFDs \/ fd \in failedFDs

Outcome(call, result) ==
    [op |-> call.op, n |-> call.n, dest |-> call.dest, fd |-> call.fd,
     afterClose |-> call.afterClose, result |-> result]

sockFrame == <<coreVars, sweepVars, capVars, buildVars, moreVars>>

\* the body of SendTo: sendto on the socket of the destination's family; on
\* an error the caller goes on to hand the descriptor to the repair task
SendToBody(s, op, n, dest, breaks) ==
    LET fd == HeldFD(dest)
        call == [op |-> op, n |-> n, dest |-> dest, fd |-> fd,
                 afterClose |-> closeCalled]
    IN  /\ breaks => ~SendFails(fd) /\ sendFailures < MaxSendFailures
        /\ IF breaks \/ SendFails(fd)
              THEN /\ failedFDs' = failedFDs \cup {fd}
                   /\ sendFailures' = IF breaks THEN sendFailures + 1
                                                ELSE sendFailures
                   /\ kPc' = [kPc EXCEPT ![s] = "notify"]
                   /\ kCall' = [kCall EXCEPT ![s] = call]
                   /\ UNCHANGED kLast
              ELSE /\ kLast' = [kLast EXCEPT ![s] = Outcome(call, "ok")]
                   /\ UNCHANGED <<failedFDs, sendFailures, kPc, kCall>>

SendTo(s, dest, breaks) ==
    /\ kPc[s] = "idle"
    /\ SendToBody(s, "SendTo", 0, dest, breaks)
    /\ UNCHANGED <<socketFD, nextFD, repairPc, brokenFD, closedFDs, sock6Vars,
                   closeCalled>>
    /\ UNCHANGED sockFrame

\* SendToPath: an empty path is an error; otherwise path[1], the second
\* element, is indexed, which panics on a path of one element
SendToPath(s, path, breaks) ==
    /\ kPc[s] = "idle"
    /\ IF Len(path) < 1
          THEN /\ ~breaks
               /\ kLast' = [kLast EXCEPT ![s] =
                               [op |-> "SendToPath", n |-> 0, dest |-> NilIP,
                                fd |-> NoFD, afterClose |-> closeCalled,
                                result |-> "error"]]
               /\ UNCHANGED <<failedFDs, sendFailures, kPc, kCall>>
          ELSE IF Len(path) < 2
          THEN /\ ~breaks
               /\ kLast' = [kLast EXCEPT ![s] =
                               [op |-> "SendToPath", n |-> Len(path),
                                dest |-> NilIP, fd |-> NoFD,
                                afterClose |-> closeCalled, result |-> "panic"]]
               /\ kPc' = [kPc EXCEPT ![s] = "panicked"]
               /\ UNCHANGED <<failedFDs, sendFailures, kCall>>
          ELSE SendToBody(s, "SendToPath", Len(path), path[2], breaks)
    /\ UNCHANGED <<socketFD, nextFD, repairPc, brokenFD, closedFDs, sock6Vars,
                   closeCalled>>
    /\ UNCHANGED sockFrame

\* the failure queue of the family takes the descriptor (its repair task is
\* waiting for one) and SendTo returns its error
SendToNotify(s) ==
    /\ kPc[s] = "notify"
    /\ IF IsV4(kCall[s].dest)
          THEN /\ repairPc = "recv"
               /\ repairPc' = "renew"
               /\ brokenFD' = kCall[s].fd
               /\ UNCHANGED sock6Vars
          ELSE /\ repair6Pc = "recv"
               /\ repair6Pc' = "renew"
               /\ broken6FD' = kCall[s].fd
               /\ UNCHANGED <<repairPc, brokenFD, socket6FD>>
    /\ kLast' = [kLast EXCEPT ![s] = Outcome(kCall[s], "error")]
    /\ kCall' = [kCall EXCEPT ![s] = NoCall]
    /\ kPc' = [kPc EXCEPT ![s] = "idle"]
    /\ UNCHANGED <<socketFD, nextFD, sendFailures, closedFDs, failedFDs,
                   closeCalled>>
    /\ UNCHANGED sockFrame

\* renewSocket6FD, as RepairRenew
Repair6Renew ==
    /\ repair6Pc = "renew"
    /\ IF NoticeIsStale(broken6FD, socket6FD)
          THEN UNCHANGED <<socket6FD, nextFD, closedFDs, failedFDs>>
          ELSE /\ socket6FD' = nextFD
               /\ closedFDs' = (closedFDs \ {nextFD}) \cup
                                   (IF broken6FD # nextFD THEN {broken6FD} ELSE {})
               /\ failedFDs' = failedFDs \ {nextFD}
               /\ nextFD' = LowestFree({socketFD, nextFD} \ closedFDs')
    /\ repair6Pc' = "recv"
    /\ broken6FD' = NoFD
    /\ UNCHANGED <<socketFD, repairPc, brokenFD, sendFailures,
                   callerVars, closeCalled>>
    /\ UNCHANGED sockFrame

\* Close: unix.Close(tc.socketFD) and tc.handle.Close(); tc.handle is the
\* handle of the device opened last
Close ==
    /\ ~closeCalled
    /\ closeCalled' = TRUE
    /\ closedFDs' = closedFDs \cup {socketFD}
    /\ nextFD' = LowestFree({socketFD, socket6FD} \ closedFDs')
    /\ hClosed' = hClosed \cup {numDevices}
    /\ UNCHANGED <<socketFD, repairPc, brokenFD, sendFailures, failedFDs,
                   sock6Vars, callerVars, numDevices, rdPc, packetsClosed,
                   dispPc>>
    /\ UNCHANGED <<coreVars, sweepVars, buildVars, moreVars>>

InitK ==
    /\ InitChannel
    /\ packetsMade = TRUE
    /\ InitBoomerang
    /\ InitPathIdle
    /\ InitExtIdle
    /\ filter = "ip proto 4"
    /\ mode = "To"
    /\ srcIsLocal = FALSE
    /\ script = <<>>

NextK ==
    \/ \E dest \in V4Dests \cup V6Dests, breaks \in BOOLEAN : SendTo(1, dest, breaks)
    \/ \E path \in SendPaths, breaks \in BOOLEAN : SendToPath(2, path, breaks)
    \/ \E s \in Senders : SendToNotify(s)
    \/ RepairRenew
    \/ Repair6Renew
    \/ Close

SpecK == InitK /\ [][NextK]_vars

\* a caller blocked on a failure queue is served, and the repair tasks run;
\* who calls SendTo or Close, and when, is up to the application
FairK ==
    /\ \A s \in Senders : WF_vars(SendToNotify(s))
    /\ WF_vars(RepairRenew)
    /\ WF_vars(Repair6Renew)

FairSpecK == SpecK /\ FairK

\* --------------------------------------------------------- sockets: claims
Called(s) == kLast[s] # NoCall
NotifyingV4(s) == kPc[s] = "notify" /\ IsV4(kCall[s].dest)

C26_HealthySocketKept ==
    (repairPc = "renew" /\ ~NoticeIsStale(brokenFD, socketFD))
        => SendFails(socketFD)

\* C16: a SendTo or SendToPath called after Close() never succeeds, whatever
\* the family of the destination and however many sends came before.
C16_SendsFailAfterClose ==
    \A s \in Senders : Called(s) /\ kLast[s].afterClose => kLast[s].result # "ok"

\* C18: SendToPath on an empty path returns an error and sends nothing; on a
\* non-empty path it sends to path[1] and returns what SendTo returns; it
\* never aborts its caller.
C18_SendToPath ==
    \A s \in Senders :
        /\ kPc[s] # "panicked"
        /\ Called(s) /\ kLast[s].op = "SendToPath" =>
               /\ kLast[s].result \in {"ok", "error"}
               /\ kLast[s].n = 0 => kLast[s].result = "error" /\ kLast[s].fd = NoFD
               /\ kLast[s].n > 0 => kLast[s].fd # NoFD


\* ------------------------------------------- capture readers and dispatch
\* A channel over numDevices capture devices, built with useListeners = true:
\* the dispatch task calls rx(), which starts packetsToChannel with one
\* reader per packet source. NextPacket on a closed handle returns an error
\* of the kind on which the reader breaks.
DevicePacket(d) ==
    RoundTripPacket(<<"A", "B">>, Marshal(NewBoomerangPayload("B", <<"dev", d>>)))

capFrame == <<chanVars, wire, listenerVars, now, boomVars, pathVars, sweepVars,
              sockVars, buildVars, moreVars>>

\* the dispatch task calls rx(): the receive queue is made and
\* packetsToChannel starts the readers
DispatchRx ==
    /\ dispPc = "start"
    /\ dispPc' = "range"
    /\ packetsMade' = TRUE
    /\ rdPc' = [d \in Devices |-> IF d <= numDevices THEN "read" ELSE "none"]
    /\ UNCHANGED <<numDevices, hClosed, packetsClosed, packets>>
    /\ UNCHANGED capFrame

\* a reader got a packet from its source and put it on the receive queue;
\* a send on a closed queue would panic
ReaderForward(d) ==
    /\ rdPc[d] = "read"
    /\ d \notin hClosed
    /\ ~packetsClosed
    /\ Len(packets) < MaxQueued
    /\ packets' = Append(packets, DevicePacket(d))
    /\ UNCHANGED <<capVars, packetsMade>>
    /\ UNCHANGED capFrame

\* the errors NextPacket can return: a temporary network error, EAGAIN, one
\* of the errors known as unrecoverable (EOF stands for them), any other
NextPacketErrors == {"temporary", "EAGAIN", "EOF", "other"}

\* what the reader's loop does on an error: continue, break, or sleep 5 ms
OnError(err) ==
    IF err = "temporary" THEN "retry"
    ELSE IF err = "EAGAIN" THEN "retry"
    ELSE IF err = "EOF" THEN "exited"
    ELSE "sleep"

\* NextPacket on an open handle returned an error; a break runs the
\* deferred waitOnDevices.Done()
ReaderError(d, err) ==
    /\ rdPc[d] = "read"
    /\ d \notin hClosed
    /\ rdPc' = [rdPc EXCEPT ![d] = OnError(err)]
    /\ UNCHANGED <<numDevices, hClosed, packetsClosed, dispPc, packets,
                   packetsMade>>
    /\ UNCHANGED capFrame

\* the continue, or the end of the sleep: the loop calls NextPacket again
ReaderAgain(d) ==
    /\ rdPc[d] \in {"retry", "sleep"}
    /\ rdPc' = [rdPc EXCEPT ![d] = "read"]
    /\ UNCHANGED <<numDevices, hClosed, packetsClosed, dispPc, packets,
                   packetsMade>>
    /\ UNCHANGED capFrame

\* NextPacket on a closed handle fails for good: the reader breaks
ReaderExit(d) ==
    /\ rdPc[d] = "read"
    /\ d \in hClosed
    /\ rdPc' = [rdPc EXCEPT ![d] = OnError("EOF")]
    /\ UNCHANGED <<numDevices, hClosed, packetsClosed, dispPc, packets,
                   packetsMade>>
    /\ UNCHANGED capFrame

\* waitOnDevices.Wait() returns
AnyReaderExited == \E d \in 1..numDevices : rdPc[d] = "exited"

AllReadersExited == \A d \in 1..numDevices : rdPc[d] = "exited"

\* packetsToChannel: every reader is gone, the deferred close(tc.packets)
PacketsClose ==
    /\ ~packetsClosed
    /\ AllReadersExited
    /\ packetsClosed' = TRUE
    /\ UNCHANGED <<numDevices, hClosed, rdPc, dispPc, packets,
                   packetsMade>>
    /\ UNCHANGED capFrame

\* the dispatch task: range over the receive queue ends once it is closed
\* and drained
DispatchExit ==
    /\ dispPc = "range"
    /\ packetsClosed
    /\ packets = <<>>
    /\ dispPc' = "exited"
    /\ UNCHANGED <<numDevices, hClosed, rdPc, packetsClosed, packets,
                   packetsMade>>
    /\ UNCHANGED capFrame

InitH ==
    /\ InitChannel
    /\ packetsMade = FALSE
    /\ InitBoomerang
    /\ InitPathIdle
    /\ InitSweepIdle
    /\ InitSockets
    /\ InitBuilderIdle
    /\ InitHashIdle
    /\ InitRxIdle
    /\ InitSubIdle
    /\ numDevices \in Devices
    /\ hClosed = {}
    /\ rdPc = [d \in Devices |-> "none"]
    /\ packetsClosed = FALSE
    /\ dispPc = "start"
    /\ filter = "ip proto 4"
    /\ mode = "To"
    /\ srcIsLocal = FALSE
    /\ script = <<>>

NextH ==
    \/ DispatchRx
    \/ \E d \in Devices : ReaderForward(d)
    \/ \E d \in Devices, err \in NextPacketErrors : ReaderError(d, err)
    \/ \E d \in Devices : ReaderAgain(d)
    \/ \E d \in Devices : ReaderExit(d)
    \/ PacketsClose
    \/ Dispatch
    \/ DispatchExit
    \/ Close

SpecH == InitH /\ [][NextH]_vars

\* readers, packetsToChannel and the dispatch task keep running; what the
\* devices capture and whether Close is called is up to the environment
FairH ==
    /\ WF_vars(DispatchRx)
    /\ \A d \in Devices : WF_vars(ReaderExit(d))
    /\ \A d \in Devices : WF_vars(ReaderAgain(d))
    /\ WF_vars(PacketsClose)
    /\ WF_vars(Dispatch)
    /\ WF_vars(DispatchExit)

FairSpecH == SpecH /\ FairH

\* C17: after Close() every reader eventually has exited, the receive queue
\* is closed and the dispatch task has ended, on a channel over one device
\* and over several.
C17_CloseStopsCapture ==
    closeCalled ~> (AllReadersExited /\ packetsClosed /\ dispPc = "exited")


\* ----------------------------------------------------------- packet builder
\* CreateRoundTripPacketForPath of builder.go, as the list of layers handed
\* to SerializeLayers. The serializer is run with ComputeChecksums only, so
\* every header keeps the Length it was built with and takes IHL * 4 bytes.
Uint16(x) == x % 65536
HeaderBytes == IHL * 4
BuildIPs == {"A", "B", "C"}
BuildPaths == UNION {[1..n -> BuildIPs] : n \in 0..MaxHops}
NilLayer == [Protocol |-> "none", SrcIP |-> NilIP, DstIP |-> NilIP, Length |-> 0]

buildIPIPLayer(sourceIP, destIP, totalLength) ==
    [Protocol |-> "IPv4", SrcIP |-> sourceIP, DstIP |-> destIP,
     Length |-> totalLength]

\* an IPv4 header whose protocol is UDP
buildUDPLayer(sourceIP, destIP, totalLength) ==
    [Protocol |-> "UDP", SrcIP |-> sourceIP, DstIP |-> destIP,
     Length |-> totalLength]

\* the slot of the return header of hop idx, counted from 0
ArrSlotForward(numLayers, idx) == numLayers \div 2 + idx

ArrSlot(numLayers, idx) == numLayers - idx - 1

\* the loop over the hops of the path, idx counted from 0: a later
\* assignment to a slot replaces an earlier one
RECURSIVE FillLayers(_, _, _, _, _)
FillLayers(constructedLayers, path, idx, numLayers, lenOverhead) ==
    IF idx > Len(path) - 2 THEN constructedLayers
    ELSE LET hopA == path[idx + 1]
             hopB == path[idx + 2]
             depLen == Uint16(ipHeaderLen * (numLayers - idx) + lenOverhead)
             arrLen == Uint16(ipHeaderLen * (idx + 1) + lenOverhead)
             dep == [constructedLayers EXCEPT
                        ![idx + 1] = buildIPIPLayer(hopA, hopB, depLen)]
             arr == [dep EXCEPT ![ArrSlot(numLayers, idx) + 1] =
                                    buildIPIPLayer(hopB, hopA, arrLen)]
         IN  FillLayers(arr, path, idx + 1, numLayers, lenOverhead)

\* err, the IP headers in the order they are serialized, and the length of
\* the payload that follows them
CreateRoundTripPacketForPath(path, payloadLen) ==
    IF Len(path) < 2
       THEN [called |-> TRUE, err |-> TRUE, layers |-> <<>>, payload |-> 0,
             serialized |-> FALSE]
       ELSE LET numLayers == 2 * (Len(path) - 1)
                lenOverhead == payloadLen + udpHeaderLen + ipHeaderLen
                empty == [k \in 1..numLayers |-> NilLayer]
                filled == FillLayers(empty, path, 0, numLayers, lenOverhead)
                inner == buildUDPLayer(path[2], path[1],
                             Uint16(ipHeaderLen + udpHeaderLen + payloadLen))
            IN  [called |-> TRUE, err |-> FALSE, layers |-> Append(filled, inner),
                 payload |-> payloadLen, serialized |-> TRUE]

\* the bytes serialized from the start of header k to the end of the packet
BytesFrom(pkt, k) == HeaderBytes * (Len(pkt.layers) - k + 1) + pkt.payload

Build ==
    /\ ~bldOut.called
    /\ bldOut' = CreateRoundTripPacketForPath(bldPath, bldPayloadLen)
    /\ UNCHANGED <<bldPath, bldPayloadLen>>
    /\ UNCHANGED <<chanVars, coreVars, sweepVars, sockVars, capVars, moreVars>>

InitR ==
    /\ InitChannel
    /\ packetsMade = TRUE
    /\ InitBoomerang
    /\ InitPathIdle
    /\ InitSweepIdle
    /\ InitSockets
    /\ InitCaptureIdle
    /\ InitHashIdle
    /\ InitRxIdle
    /\ InitSubIdle
    /\ bldPath \in BuildPaths
    /\ bldPayloadLen \in 0..MaxPayload
    /\ bldOut = NotBuilt
    /\ filter = "ip proto 4"
    /\ mode = "To"
    /\ srcIsLocal = FALSE
    /\ script = <<>>

NextR == Build

SpecR == InitR /\ [][NextR]_vars

\* ------------------------------------------------------- builder: claims
Built == bldOut.called
Hops == Len(bldPath)

\* C19: for a path P of n >= 2 hops the packet is, in order, the outgoing
\* IP-in-IP headers P[i] -> P[i+1] for i = 0..n-2, the return IP-in-IP
\* headers P[i+1] -> P[i] for i = n-2 down to 0, the innermost header
\* P[1] -> P[0], then the payload; for a shorter path the call returns an
\* error and serializes nothing.
C19_HeaderOrder ==
    Built =>
        IF Hops < 2
           THEN bldOut.err /\ ~bldOut.serialized /\ bldOut.layers = <<>>
           ELSE /\ ~bldOut.err
                /\ bldOut.serialized
                /\ Len(bldOut.layers) = 2 * (Hops - 1) + 1
                /\ \A i \in 0..(Hops - 2) :
                       /\ bldOut.layers[i + 1].SrcIP = bldPath[i + 1]
                       /\ bldOut.layers[i + 1].DstIP = bldPath[i + 2]
                       /\ bldOut.layers[i + 1].Protocol = "IPv4"
                /\ \A j \in 1..(Hops - 1) :
                       LET i == Hops - 1 - j
                           l == bldOut.layers[Hops - 1 + j]
                       IN  /\ l.SrcIP = bldPath[i + 2]
                           /\ l.DstIP = bldPath[i + 1]
                           /\ l.Protocol = "IPv4"
                /\ Last(bldOut.layers).SrcIP = bldPath[2]
                /\ Last(bldOut.layers).DstIP = bldPath[1]
                /\ Last(bldOut.layers).Protocol = "UDP"
                /\ bldOut.payload = bldPayloadLen

C19_Witness ==
    /\ Built
    /\ bldPath = <<"A", "B", "C">>
    /\ bldPayloadLen = 1
    /\ Len(bldOut.layers) = 5

\* C20: the Length field of every IP header of a built packet equals the
\* number of bytes serialized from the start of that header to the end of
\* the packet.
C20_LengthFields ==
    Built /\ ~bldOut.err =>
        \A k \in 1..Len(bldOut.layers) :
            bldOut.layers[k].Length = BytesFrom(bldOut, k)

\* reader d is still in its loop
Reading(d) == rdPc[d] \in {"read", "retry", "sleep"}

InitC ==
    /\ InitChannel
    /\ InitBoomerang
    /\ InitPathIdle
    /\ InitSweepIdle
    /\ InitSockets
    /\ InitBuilderIdle
    /\ InitHashIdle
    /\ InitRxIdle
    /\ InitSubIdle
    /\ numDevices = 1
    /\ hClosed = {}
    /\ rdPc = [d \in Devices |-> "none"]
    /\ packetsClosed = FALSE
    /\ dispPc \in {"none", "range"}
    /\ packetsMade = (dispPc = "range")
    /\ filter \in Filters
    /\ \E sc \in Scenarios :
           /\ mode = sc.mode
           /\ srcIsLocal = sc.srcIsLocal
           /\ script = sc.script

\* the dispatch task takes the next packet off the receive queue
DispatchTake ==
    /\ dispPc = "range"
    /\ Dispatch

NextC ==
    \/ NextP
    \/ DispatchTake

SpecC == InitC /\ [][NextC]_vars

\* the tasks that are in a loop over the channel's receive queue
Consumers ==
    {t \in {"dispatch", "capture"} :
        \/ t = "dispatch" /\ dispPc = "range"
        \/ t = "capture" /\ capturePc \in {"range", "ready", "found"}}

\* C24: at most one task consumes from the channel's receive queue: a path
\* discovery on a channel built with useListeners = true adds no second
\* consumer beside the dispatch task.
C24_SingleConsumer == Cardinality(Consumers) <= 1

\* ------------------------------------------------------------ Path.SubPath
\* path.go. Addresses are net.IP byte slices: "A16" is the 16-byte form of
\* the IPv4 address whose 4-byte form is "A".
SubIPs == {"A", "A16", "B"}
SubHops == SubIPs \cup {"C"}
SubPaths == UNION {[1..n -> SubIPs] : n \in 0..MaxSubLen}

\* net.IP.Equal: an IPv4 address equals its 16-byte form
To4(ip) == IF ip = "A16" THEN "A" ELSE ip
IPEqual(x, y) == To4(x) = To4(y)

\* p[:idx+1], idx counted from 0 in the source and from 1 here
PrefixShort(p, idx) == SubSeq(p, 1, idx - 1)
Prefix(p, idx) == SubSeq(p, 1, idx)

\* SubPath's loop from index idx on
RECURSIVE SubPathFrom(_, _, _)
SubPathFrom(p, lastHop, idx) ==
    IF idx > Len(p) THEN <<>>
    ELSE IF IPEqual(lastHop, p[idx]) THEN Prefix(p, idx)
    ELSE SubPathFrom(p, lastHop, idx + 1)

SubPath(p, lastHop) == SubPathFrom(p, lastHop, 1)

subFrame == <<chanVars, coreVars, sweepVars, sockVars, capVars, buildVars,
              hashVars, raceVars>>

CallSubPath ==
    /\ ~subOut.called
    /\ subOut' = [called |-> TRUE, path |-> SubPath(subPath, subHop)]
    /\ UNCHANGED <<subPath, subHop>>
    /\ UNCHANGED subFrame

InitU ==
    /\ InitChannel
    /\ packetsMade = TRUE
    /\ InitBoomerang
    /\ InitPathIdle
    /\ InitSweepIdle
    /\ InitSockets
    /\ InitCaptureIdle
    /\ InitBuilderIdle
    /\ InitHashIdle
    /\ InitRxIdle
    /\ subPath \in SubPaths
    /\ subHop \in SubHops
    /\ subOut = NoSubPath
    /\ filter = "ip proto 4"
    /\ mode = "To"
    /\ srcIsLocal = FALSE
    /\ script = <<>>

NextU == CallSubPath

SpecU == InitU /\ [][NextU]_vars

\* ---------------------------------------------------------- SubPath: claims
\* the indices of subPath whose hop equals ip
Occurs(ip) == {k \in 1..Len(subPath) : IPEqual(ip, subPath[k])}

\* C22, as stated: for every path P and index k, SubPath(P, P[k]) is the
\* prefix P[0..k+1], and SubPath(P, X) is empty when X is not a hop of P.
C22_AnyOccurrence ==
    subOut.called =>
        /\ \A k \in 1..Len(subPath) :
              subHop = subPath[k] => subOut.path = SubSeq(subPath, 1, k)
        /\ Occurs(subHop) = {} => subOut.path = <<>>

\* C22, amended: SubPath(P, X) is the prefix of P that ends at the first hop
\* equal to X, so SubPath(P, P[k]) is P[0..k+1] when no earlier hop equals
\* P[k]; it is empty when no hop of P equals X.
C22_FirstOccurrence ==
    subOut.called =>
        /\ \A k \in Occurs(subHop) :
              (\A j \in Occurs(subHop) : k <= j) =>
                  subOut.path = SubSeq(subPath, 1, k)
        /\ Occurs(subHop) = {} => subOut.path = <<>>

\* SubPath has returned the prefix to the first of two hops equal to lastHop
C22_Witness ==
    /\ subOut.called
    /\ \E j, k \in Occurs(subHop) : j < k /\ 1 < j
    /\ subOut.path # <<>>
    /\ Len(subOut.path) < Len(subPath)

\* ------------------------------------------------------ packet hash table
\* hash.go. Every task that enters the table takes phm's mutex first. store
\* and del do nothing that can block while they hold it, so each is one step
\* taken when the mutex is free; run can block on a send while it holds the
\* mutex, so it keeps the mutex over several steps.
hashFrame == <<chanVars, coreVars, sweepVars, sockVars, capVars, buildVars,
              subVars, raceVars>>

\* BoomerangPacketHasher: the first 20 bytes of the application payload, or an
\* error for a shorter payload
BoomerangPacketHasher(pkt) ==
    IF pkt.len < hashLen THEN [err |-> TRUE, hash |-> ""]
    ELSE [err |-> FALSE, hash |-> pkt.head]

\* the hashers attached to the channel
hashers == <<"BoomerangPacketHasher">>

\* run, before it locks: the hashes the hashers compute, errors skipped
RECURSIVE ComputedHashSlice(_, _)
ComputedHashSlice(pkt, i) ==
    IF i > Len(hashers) THEN <<>>
    ELSE LET r == BoomerangPacketHasher(pkt)
         IN  IF r.err THEN ComputedHashSlice(pkt, i + 1)
             ELSE <<r.hash>> \o ComputedHashSlice(pkt, i + 1)

\* phm.m[hash]: the queue stored for hash, or none
Lookup(m, hash) == IF hash \in DOMAIN m THEN m[hash] ELSE NoCh

\* phm.Lock() returns: nobody holds the mutex
LockFree == phmLock = NoTask

\* del's phm.Lock()
DelLockSkipped == TRUE
DelLock == LockFree

\* delete(phm.m, hash)
DeleteEntryKept(m, hash) == m
DeleteEntry(m, hash) == [m EXCEPT ![hash] = NoCh]

\* the application calls RegisterHash(hash): the task reaches store's Lock
RegisterHash(a, hash) ==
    /\ ~chPanic
    /\ aPc[a] = "idle"
    /\ nextCh <= MaxChans
    /\ aPc' = [aPc EXCEPT ![a] = "store"]
    /\ aHash' = [aHash EXCEPT ![a] = hash]
    /\ UNCHANGED <<phmMap, chQ, chClosed, nextCh, phmLock, chPanic, aLast,
                   lastOp, spawned, rPc, rHashes, rIdx, rCh, offered>>
    /\ UNCHANGED hashFrame

\* store: a new queue of capacity 1 replaces whatever the table held for hash
store(a) ==
    /\ ~chPanic
    /\ aPc[a] = "store"
    /\ LockFree
    /\ nextCh <= MaxChans
    /\ phmMap' = [phmMap EXCEPT ![aHash[a]] = nextCh]
    /\ nextCh' = nextCh + 1
    /\ lastOp' = [lastOp EXCEPT ![aHash[a]] = "store"]
    /\ aPc' = [aPc EXCEPT ![a] = "idle"]
    /\ aHash' = [aHash EXCEPT ![a] = ""]
    /\ UNCHANGED <<chQ, chClosed, phmLock, chPanic, aLast, spawned, rPc,
                   rHashes, rIdx, rCh, offered>>
    /\ UNCHANGED hashFrame

\* the application calls UnregisterHash(hash): the task reaches del's Lock
UnregisterHash(a, hash) ==
    /\ ~chPanic
    /\ aPc[a] = "idle"
    /\ aPc' = [aPc EXCEPT ![a] = "del"]
    /\ aHash' = [aHash EXCEPT ![a] = hash]
    /\ UNCHANGED <<phmMap, chQ, chClosed, nextCh, phmLock, chPanic, aLast,
                   lastOp, spawned, rPc, rHashes, rIdx, rCh, offered>>
    /\ UNCHANGED hashFrame

\* del: close and delete the entry if there is one; closing a closed queue
\* panics
del(a) ==
    LET hash == aHash[a]
        packetMatchChannel == Lookup(phmMap, hash)
        exists == packetMatchChannel # NoCh
    IN  /\ ~chPanic
        /\ aPc[a] = "del"
        /\ DelLock
        /\ IF exists
           THEN /\ chPanic' = (packetMatchChannel \in chClosed)
                /\ chClosed' = chClosed \cup {packetMatchChannel}
                /\ phmMap' = DeleteEntry(phmMap, hash)
           ELSE UNCHANGED <<chPanic, chClosed, phmMap>>
        /\ aLast' = [aLast EXCEPT ![a] =
                        [hash |-> hash, ret |-> exists, prev |-> lastOp[hash]]]
        /\ lastOp' = [lastOp EXCEPT ![hash] = "del"]
        /\ aPc' = [aPc EXCEPT ![a] = "idle"]
        /\ aHash' = [aHash EXCEPT ![a] = ""]
        /\ UNCHANGED <<chQ, nextCh, phmLock, spawned, rPc, rHashes, rIdx, rCh,
                       offered>>
        /\ UNCHANGED hashFrame

\* the dispatch task takes the next packet off the receive queue and starts
\* a run task for it; the task computes the hashes and reaches Lock
HashDispatch(pkt) ==
    /\ ~chPanic
    /\ spawned < MaxRun
    /\ spawned' = spawned + 1
    /\ rPc' = [rPc EXCEPT ![spawned + 1] = "lock"]
    /\ rHashes' = [rHashes EXCEPT ![spawned + 1] = ComputedHashSlice(pkt, 1)]
    /\ UNCHANGED <<phmMap, chQ, chClosed, nextCh, phmLock, chPanic, aPc, aHash,
                   aLast, lastOp, rIdx, rCh, offered>>
    /\ UNCHANGED hashFrame

\* run: phm.Lock()
RunLock(p) ==
    /\ ~chPanic
    /\ rPc[p] = "lock"
    /\ LockFree
    /\ phmLock' = p
    /\ rPc' = [rPc EXCEPT ![p] = "loop"]
    /\ rIdx' = [rIdx EXCEPT ![p] = 1]
    /\ UNCHANGED <<phmMap, chQ, chClosed, nextCh, chPanic, aPc, aHash, aLast,
                   lastOp, spawned, rHashes, rCh, offered>>
    /\ UNCHANGED hashFrame

\* run: one turn of the loop over the computed hashes, up to the send; after
\* the last hash the deferred Unlock runs
RunLookup(p) ==
    /\ ~chPanic
    /\ rPc[p] = "loop"
    /\ IF rIdx[p] > Len(rHashes[p])
       THEN /\ phmLock' = NoTask
            /\ rPc' = [rPc EXCEPT ![p] = "done"]
            /\ rIdx' = [rIdx EXCEPT ![p] = 0]
            /\ rCh' = [rCh EXCEPT ![p] = NoCh]
       ELSE IF Lookup(phmMap, rHashes[p][rIdx[p]]) # NoCh
       THEN /\ rCh' = [rCh EXCEPT ![p] = Lookup(phmMap, rHashes[p][rIdx[p]])]
            /\ rPc' = [rPc EXCEPT ![p] = "send"]
            /\ UNCHANGED <<phmLock, rIdx>>
       ELSE /\ rIdx' = [rIdx EXCEPT ![p] = rIdx[p] + 1]
            /\ UNCHANGED <<phmLock, rPc, rCh>>
    /\ UNCHANGED <<phmMap, chQ, chClosed, nextCh, chPanic, aPc, aHash, aLast,
                   lastOp, spawned, rHashes, offered>>
    /\ UNCHANGED hashFrame

\* run: packetMatchChannel <- p, which waits for room in the queue and
\* panics on a closed queue
RunSend(p) ==
    /\ ~chPanic
    /\ rPc[p] = "send"
    /\ IF rCh[p] \in chClosed
       THEN /\ chPanic' = TRUE
            /\ UNCHANGED <<chQ, offered, rIdx, rPc>>
       ELSE /\ Len(chQ[rCh[p]]) < chanCap
            /\ chQ' = [chQ EXCEPT ![rCh[p]] = Append(@, p)]
            /\ offered' = [offered EXCEPT ![rCh[p]] = Append(@, p)]
            /\ rIdx' = [rIdx EXCEPT ![p] = rIdx[p] + 1]
            /\ rPc' = [rPc EXCEPT ![p] = "loop"]
            /\ UNCHANGED chPanic
    /\ UNCHANGED <<phmMap, chClosed, nextCh, phmLock, aPc, aHash, aLast, lastOp,
                   spawned, rHashes, rCh>>
    /\ UNCHANGED hashFrame

\* whoever holds the queue RegisterHash returned receives from it
Consume(c) ==
    /\ ~chPanic
    /\ c < nextCh
    /\ chQ[c] # <<>>
    /\ chQ' = [chQ EXCEPT ![c] = Tail(@)]
    /\ UNCHANGED <<phmMap, chClosed, nextCh, phmLock, chPanic, aPc, aHash,
                   aLast, lastOp, spawned, rPc, rHashes, rIdx, rCh, offered>>
    /\ UNCHANGED hashFrame

InitT ==
    /\ InitChannel
    /\ packetsMade = TRUE
    /\ InitBoomerang
    /\ InitPathIdle
    /\ InitExtIdle
    /\ filter = "ip proto 4"
    /\ mode = "To"
    /\ srcIsLocal = FALSE
    /\ script = <<>>

NextT ==
    \/ \E hash \in Hashes : RegisterHash(1, hash)
    \/ \E a \in Apps : store(a)
    \/ \E a \in Apps, hash \in Hashes : UnregisterHash(a, hash)
    \/ \E a \in Apps : del(a)
    \/ \E pkt \in RunPackets : HashDispatch(pkt)
    \/ \E p \in RunTasks : RunLock(p)
    \/ \E p \in RunTasks : RunLookup(p)
    \/ \E p \in RunTasks : RunSend(p)
    \/ \E c \in Chans : Consume(c)

SpecT == InitT /\ [][NextT]_vars

\* ---------------------------------------------- packet hash table: claims
\* hash is registered when the last call on it that completed was a
\* RegisterHash
Registered(hash) == lastOp[hash] = "store"
\* task a returns from UnregisterHash in this step
DelReturns(a) == aPc[a] = "del" /\ aPc'[a] = "idle"

\* C21: UnregisterHash(h) returns true exactly when h is registered, and
\* then the entry is gone and its queue, open until then, is closed once;
\* when h is not registered, as in a second UnregisterHash(h) with no
\* RegisterHash in between, it returns false and changes neither the table
\* nor any queue.
C21_UnregisterOnce ==
    [][\A a \in Apps :
        DelReturns(a) =>
            LET h == aHash[a]
                ch == Lookup(phmMap, h)
            IN  /\ aLast'[a].ret = Registered(h)
                /\ Registered(h) =>
                      /\ ch # NoCh
                      /\ ch \notin chClosed
                      /\ chClosed' = chClosed \cup {ch}
                      /\ Lookup(phmMap', h) = NoCh
                      /\ ~chPanic'
                /\ ~Registered(h) =>
                      UNCHANGED <<phmMap, chClosed, chQ, chPanic>>]_vars

\* a second UnregisterHash in a row has returned false, after the first
\* closed the queue
C21_Witness ==
    \E a \in Apps :
        /\ aLast[a].hash \in Hashes
        /\ aLast[a].prev = "del"
        /\ ~aLast[a].ret
        /\ chClosed # {}

\* run task p holds the mutex and waits for room in a full queue
BlockedHoldingMutex(p) ==
    /\ rPc[p] = "send"
    /\ phmLock = p
    /\ rCh[p] \notin chClosed
    /\ Len(chQ[rCh[p]]) >= chanCap

\* C23: dispatch into the hash table never blocks: no run task waits on a
\* full delivery queue while it holds the table's mutex, so that
\* RegisterHash and UnregisterHash can always take the mutex.
C23_DispatchNeverBlocks == \A p \in RunTasks : ~BlockedHoldingMutex(p)

\* C25: once UnregisterHash has closed a delivery queue no run task sends to
\* it, whether the task started before or after the close: no task is at
\* its send with a closed queue in hand, and no send has hit a closed queue.
C25_NoDeliveryAfterClose ==
    /\ ~chPanic
    /\ \A p \in RunTasks : rPc[p] = "send" => rCh[p] \notin chClosed

\* a queue that took a delivery has been closed by UnregisterHash while a
\* run task whose packet carries the queue's hash was already started and
\* has since finished without delivering to it
C25_Witness ==
    \E p \in RunTasks, c \in Chans :
        /\ c \in chClosed
        /\ offered[c] # <<>>
        /\ rPc[p] = "done"
        /\ rHashes[p] # <<>>
        /\ \A d \in Chans : \A i \in DOMAIN offered[d] : offered[d][i] # p
        /\ \E i \in DOMAIN offered[c] : offered[c][i] > p

\* C27: packets are offered to a delivery queue in capture order: of two
\* packets offered to the same queue, the one the dispatch task took first
\* is offered first.
C27_CaptureOrder ==
    \A c \in Chans : \A i, j \in DOMAIN offered[c] :
        i < j => offered[c][i] < offered[c][j]

\* ------------------------------------- local-to-destination discovery: replies
\* the route to the destination: two routers, then the destination itself
NetHops == <<"R1", "R2">>

\* what the network sends back for a UDP traceroute packet of this TTL: the
\* router where the TTL runs out answers TTL-exceeded, the destination
\* answers port-unreachable
IcmpReply(t) ==
    IF t <= Len(NetHops)
       THEN Packet("TTLExceeded", NetHops[t], LocalIP)
       ELSE Packet("PortUnreachable", DestIP, LocalIP)

\* the TTL of the packet the sender is about to send: the priming packet is
\* built with TTL 2, the packet of the loop with the loop's ttl
primingTTL == 2
ProbeTTL == IF senderPc = "prime" THEN primingTTL ELSE ttl

\* SendTo in local-to-destination discovery with the network behind it: a
\* packet that sendto accepted draws its reply, which the capture readers
\* forward later (or never); packets with a TTL above MaxAnswered are lost.
\* An error is printed and the failed FD handed to the repair task
ProbeSendTo(ok) ==
    /\ Engine = "To"
    /\ senderPc \in {"prime", "send"}
    /\ pathSent' = pathSent + 1
    /\ IF ok
          THEN /\ senderPc' = AfterSend(Engine, senderPc)
               /\ wire' = IF ProbeTTL <= MaxAnswered
                             THEN wire \cup {IcmpReply(ProbeTTL)} ELSE wire
               /\ UNCHANGED <<sendFailures, resumePc, pFD>>
          ELSE /\ sendFailures < MaxSendFailures
               /\ sendFailures' = sendFailures + 1
               /\ pFD' = socketFD
               /\ resumePc' = AfterSend(Engine, senderPc)
               /\ senderPc' = "notify"
               /\ UNCHANGED wire
    /\ UNCHANGED <<socketFD, nextFD, repairPc, brokenFD, packets, packetsMade,
                   listenerVars, now, boomVars, filter, mode, srcIsLocal, script,
                   captured, callResult, capturePc, capturePkt,
                   listenerReadySignalSent, foundQ, doneQ, ttl, emitVal, hops,
                   pathClosed, taken>>
    /\ UNCHANGED extVars

\* GetPathChannelTo on a channel built with UseListeners(false) and the
\* filter "icmp"; the only packets captured are the replies to its own
\* packets
InitL ==
    /\ InitChannel
    /\ packetsMade = FALSE
    /\ InitBoomerang
    /\ InitPathIdle
    /\ InitExtIdle
    /\ filter = "icmp"
    /\ mode = "To"
    /\ srcIsLocal = FALSE
    /\ script = <<>>

NextL ==
    \/ GetPathChannel
    \/ CaptureRx
    \/ \E pkt \in wire : Capture(pkt)
    \/ CaptureTake
    \/ PathListenerReady
    \/ \E ok \in BOOLEAN : ProbeSendTo(ok)
    \/ PathNotify
    \/ RepairRenew
    \/ SenderFound
    \/ SenderTimeout
    \/ SenderDone
    \/ SenderEmit

SpecL == InitL /\ [][NextL]_vars

\* the address the TTL-k packet of the loop is answered from
HopAt(k) == IcmpReply(k).src

\* C31: in local-to-destination discovery the hop emitted in the TTL-k
\* iteration is the answer to the TTL-k packet: it is nil or the address the
\* TTL-k packet is answered from, never the answer to the TTL-2 priming
\* packet or to a packet of another iteration.
C31_HopOfItsTTL ==
    \A k \in 1..Len(hops) : hops[k] \in {NilIP, HopAt(k)}

\* ----------------------------------------------------- rx(): the first calls
\* rx() reads and writes tc.packets without a lock, and the readers started
\* by packetsToChannel read the field each time they forward. A task that
\* reads the field while another writes it sees the value it saw last or any
\* value stored since.
rxFrame == <<chanVars, coreVars, sweepVars, sockVars, capVars, buildVars,
             hashVars, subVars>>

RacyRead(last) == last..tcPackets

\* the capture task of a path discovery is started; the dispatch task was
\* started by NewTransportChannel
StartCaptureTask ==
    /\ xPc["capture"] = "none"
    /\ xPc' = [xPc EXCEPT !["capture"] = "call"]
    /\ UNCHANGED <<tcPackets, xGot, rdQ, fwd>>
    /\ UNCHANGED rxFrame

\* if tc.packets == nil
RxCheck(c) ==
    /\ xPc[c] = "call"
    /\ \E q \in RacyRead(NoQueue) :
           /\ xGot' = [xGot EXCEPT ![c] = q]
           /\ xPc' = [xPc EXCEPT ![c] = IF q = NoQueue THEN "make" ELSE "return"]
    /\ UNCHANGED <<tcPackets, rdQ, fwd>>
    /\ UNCHANGED rxFrame

\* tc.packets = make(chan gopacket.Packet, 1000000)
RxMake(c) ==
    /\ xPc[c] = "make"
    /\ tcPackets' = tcPackets + 1
    /\ xGot' = [xGot EXCEPT ![c] = tcPackets + 1]
    /\ xPc' = [xPc EXCEPT ![c] = "go"]
    /\ UNCHANGED <<rdQ, fwd>>
    /\ UNCHANGED rxFrame

\* go tc.packetsToChannel(): a set of capture readers that has seen at least
\* the queue its starter made
RxGo(c) ==
    /\ xPc[c] = "go"
    /\ rdQ' = [rdQ EXCEPT ![c] = xGot[c]]
    /\ xPc' = [xPc EXCEPT ![c] = "return"]
    /\ UNCHANGED <<tcPackets, xGot, fwd>>
    /\ UNCHANGED rxFrame

\* return tc.packets; the caller then ranges over what it got
RxReturn(c) ==
    /\ xPc[c] = "return"
    /\ \E q \in RacyRead(xGot[c]) : xGot' = [xGot EXCEPT ![c] = q]
    /\ xPc' = [xPc EXCEPT ![c] = "range"]
    /\ UNCHANGED <<tcPackets, rdQ, fwd>>
    /\ UNCHANGED rxFrame

\* a reader of the set started by c forwards a packet: tc.packets <- packet
RxForward(c) ==
    /\ rdQ[c] # NoQueue
    /\ \E q \in RacyRead(rdQ[c]) :
           /\ fwd[q] < MaxForwarded
           /\ rdQ' = [rdQ EXCEPT ![c] = q]
           /\ fwd' = [fwd EXCEPT ![q] = fwd[q] + 1]
    /\ UNCHANGED <<tcPackets, xPc, xGot>>
    /\ UNCHANGED rxFrame

\* a channel built with the default useListeners = true, on which a path
\* discovery is then started
InitX ==
    /\ InitChannel
    /\ packetsMade = FALSE
    /\ InitBoomerang
    /\ InitPathIdle
    /\ InitSweepIdle
    /\ InitSockets
    /\ InitCaptureIdle
    /\ InitBuilderIdle
    /\ InitHashIdle
    /\ InitSubIdle
    /\ tcPackets = NoQueue
    /\ xPc = [c \in RxCallers |-> IF c = "dispatch" THEN "call" ELSE "none"]
    /\ xGot = [c \in RxCallers |-> NoQueue]
    /\ rdQ = [c \in RxCallers |-> NoQueue]
    /\ fwd = [q \in Queues |-> 0]
    /\ filter = "icmp"
    /\ mode = "To"
    /\ srcIsLocal = FALSE
    /\ script = <<>>

NextX ==
    \/ StartCaptureTask
    \/ \E c \in RxCallers : RxCheck(c)
    \/ \E c \in RxCallers : RxMake(c)
    \/ \E c \in RxCallers : RxGo(c)
    \/ \E c \in RxCallers : RxReturn(c)
    \/ \E c \in RxCallers : RxForward(c)

SpecX == InitX /\ [][NextX]_vars

\* the reader sets started, and the callers that range over a queue
ReaderSets == {c \in RxCallers : rdQ[c] # NoQueue}
Ranging == {c \in RxCallers : xPc[c] = "range"}

\* C33: however the first calls of rx() interleave, one receive queue is
\* made and one set of capture readers started; the callers that have
\* returned from rx() hold the same queue, and once every caller has
\* returned, each queue a packet was forwarded to is held by a caller.
C33_OneQueue ==
    /\ tcPackets <= 1
    /\ Cardinality(ReaderSets) <= 1
    /\ \A c, d \in Ranging : xGot[c] = xGot[d]
    /\ Ranging = RxCallers =>
           \A q \in Queues : fwd[q] > 0 => \E c \in RxCallers : xGot[c] = q

====
